---------------------------- MODULE Spec2Model ----------------------------
(***************************************************************************)
(* A model of the chiapos disk plotter: DiskPlotter::CreatePlotDisk        *)
(* (parameter validation, temporary files, the four phases, the final      *)
(* placement loop), the external bucket sort, back-propagation and the     *)
(* line-point / park encoding.                                             *)
(***************************************************************************)
EXTENDS Integers, Sequences, FiniteSets, TLC

VARIABLES
    pc,          \* position of CreatePlotDisk
    inp,         \* the arguments of the call (NoCall before the call)
    env,         \* what the call finds: directories, cpu, path relation
    err,         \* the exception that left CreatePlotDisk ("none" if none)
    failedAt,    \* the position at which the exception was raised
    num_buckets, \* local num_buckets once validation has computed it
    log_num_buckets,
    fs,          \* the file system: path -> content
    fs_init,     \* the file system as it was before the call
    bCopied,
    bRenamed,
    phases,      \* the phases and the header write, in completion order
    retries,     \* failed iterations of the placement loop so far
    iter,        \* what the last iteration of the placement loop did
    impls        \* the implementation each phase that returned was run by

VARIABLES
    lpc,         \* position of the line-point exercise
    sq_a,        \* first pair <<x, y>> handed to LinePoint
    sq_b,        \* second pair <<x, y>> handed to LinePoint
    lp_a,        \* line point of sq_a
    lp_b,        \* line point of sq_b
    lp_in,       \* line point handed to LinePointToSquare
    sq_out       \* the pair LinePointToSquare returned

VARIABLES
    spc,         \* what the client of the sort manager is doing
    sm,          \* the SortManager object
    added,       \* the entries added, in the order of the calls
    read_pos,    \* the position the reader is at
    emitted      \* the entries read so far, in the order of the reads

VARIABLES
    p2c,         \* position of phase 2
    p1_tables,   \* the tables phase 1 wrote
    p2_t,        \* the table the running variant of phase 2 is at
    used,        \* bitfield variant: the bitfield of every table
    bf_tables,   \* bitfield variant: the tables phase 3 reads
    bf_sizes,    \* bitfield variant: table_sizes
    rw_tables,   \* rewrite variant: the table files
    rw_sizes     \* rewrite variant: table_sizes

VARIABLES
    ppc,         \* position of the park exercise
    park_in,     \* the line points of one park, in sorted order
    park,        \* the park written for them
    park_out     \* the line points read back from the park

VARIABLES
    hpc,         \* position of WriteHeader
    hdr_in,      \* the plot the header is written for: k, id, memo, settings
    plot_Disk,   \* the bytes of the file WriteHeader writes to
    hdr_writes,  \* the writes made so far, <<begin, length>> each
    write_pos,
    bytes_written \* the value WriteHeader returned

VARIABLES
    fd_pc,       \* where the user of the FileDisk is
    disk,        \* the FileDisk object
    fd_file,     \* the bytes of the file filename_ names
    fpos,        \* the file position indicator of f_
    fd_call,     \* the call under way: operation, begin, length, flags
    fd_try,      \* the last fopen, fread or fwrite of the call under way
    fd_fails,    \* failed attempts of the call under way (counted to a bound)
    fd_err,      \* the exception that left the call ("none" if none)
    memcache     \* the bytes the last fread delivered

VARIABLES
    bd,          \* the BufferedDisk object
    bd_file,     \* the bytes of the file under disk_
    bd_call,     \* the last call made on the BufferedDisk
    bd_ops,      \* the calls that call made on disk_, in order
    bd_ret,      \* what the last Read returned: the buffer and the bytes
    temp,        \* the static buffer of backward reads
    bd_calls,    \* the number of calls made on the BufferedDisk
    bd_direct    \* the file, had every Write gone straight to it

VARIABLES
    fl_pc,       \* "ready", or "dead" once an assert has ended the process
    filtered,    \* the FilteredDisk object
    fl_call,     \* the last call made on the FilteredDisk
    fl_under,    \* the calls made on the underlying disk, in order
    fl_err       \* how the last call failed ("none" if it did not)

VARIABLES
    sl_pc,       \* "in" before the call, "sliced" after it
    sl_bytes,    \* the buffer the caller passes
    sl_tail,     \* the value found in the 7 bytes that follow the buffer
    sl_start,    \* start_bit
    sl_num,      \* num_bits
    sl_out       \* the 64-bit word returned

VARIABLES
    ph1_pc,      \* "run" while the workers of a table run, "joined" after
    found,       \* position -> the bucket of the entry found there, or -1
    wk_pc,       \* worker -> where the worker is
    wk_stripe,   \* worker -> the stripe it scans
    wk_i,        \* worker -> how far it is in the stripe
    wk_wp,       \* worker -> the write pointer it read inside add
    holder,      \* bucket -> the worker inside add for it, 0 if none
    ph1_buckets, \* bucket -> write pointer and the entries added
    scanned_by,  \* position -> the workers that scanned it
    table_size   \* table_sizes[t], recorded after the join

VARIABLES
    tw_disks,    \* the two BufferedDisk objects
    tw_files,    \* the bytes of the file under each of them
    tw_temp,     \* the static buffer of backward reads, one for the process
    tw_borrow,   \* per disk: the pointer and the bytes its last Read returned
    tw_calls     \* the number of calls made

VARIABLES
    mc_pc,       \* "in" before the call of MemCmpBits, "compared" after it
    mc_left,    \* the first array
    mc_right,   \* the second array
    mc_begin,    \* bits_begin
    mc_out       \* the int returned

VARIABLES
    sz_pc,       \* "append" while values are appended, "get" while read back
    sz_values,   \* the values appended, in order
    target,      \* Serializer::target
    nPosition,   \* Deserializer::nPosition
    sz_got,      \* the values the Get calls returned, in order
    sz_err       \* the exception that left a Get ("none" if none)

VARIABLES
    rs_pc,       \* position in Util::RoundSize: "call", "loop", "return", "returned"
    rs_n,        \* the argument of the call, a uint64_t
    rs_size,     \* size after size *= 2
    rs_result,   \* result
    rs_out       \* the value returned

plotVars == <<pc, inp, env, err, failedAt, num_buckets, log_num_buckets,
              fs, fs_init, bCopied, bRenamed, phases, retries, iter,
              impls>>

lpVars == <<lpc, sq_a, sq_b, lp_a, lp_b, lp_in, sq_out>>

parkVars == <<ppc, park_in, park, park_out>>

sortVars == <<spc, sm, added, read_pos, emitted>>

phase2Vars == <<p2c, p1_tables, p2_t, used, bf_tables, bf_sizes, rw_tables,
                rw_sizes>>

headerVars == <<hpc, hdr_in, plot_Disk, hdr_writes, write_pos, bytes_written>>

fdVars == <<fd_pc, disk, fd_file, fpos, fd_call, fd_try, fd_fails, fd_err, memcache>>

bdVars == <<bd, bd_file, bd_call, bd_ops, bd_ret, temp, bd_calls, bd_direct>>

filteredVars == <<fl_pc, filtered, fl_call, fl_under, fl_err>>

sliceVars == <<sl_pc, sl_bytes, sl_tail, sl_start, sl_num, sl_out>>

phase1Vars == <<ph1_pc, found, wk_pc, wk_stripe, wk_i, wk_wp, holder, ph1_buckets, scanned_by, table_size>>

twoVars == <<tw_disks, tw_files, tw_temp, tw_borrow, tw_calls>>

memCmpVars == <<mc_pc, mc_left, mc_right, mc_begin, mc_out>>

serVars == <<sz_pc, sz_values, target, nPosition, sz_got, sz_err>>

roundSizeVars == <<rs_pc, rs_n, rs_size, rs_result, rs_out>>

vars == <<plotVars, lpVars, parkVars, sortVars, phase2Vars, headerVars, fdVars, bdVars, filteredVars, sliceVars, phase1Vars, twoVars, memCmpVars, serVars, roundSizeVars>>

\* what the actions of one part leave alone: the variables of the others
notPlot == <<lpVars, parkVars, sortVars, phase2Vars, headerVars, fdVars, bdVars, filteredVars, sliceVars, phase1Vars, twoVars, memCmpVars, serVars, roundSizeVars>>
notLp == <<plotVars, parkVars, sortVars, phase2Vars, headerVars, fdVars, bdVars, filteredVars, sliceVars, phase1Vars, twoVars, memCmpVars, serVars, roundSizeVars>>
notPark == <<plotVars, lpVars, sortVars, phase2Vars, headerVars, fdVars, bdVars, filteredVars, sliceVars, phase1Vars, twoVars, memCmpVars, serVars, roundSizeVars>>
notSort == <<plotVars, lpVars, parkVars, phase2Vars, headerVars, fdVars, bdVars, filteredVars, sliceVars, phase1Vars, twoVars, memCmpVars, serVars, roundSizeVars>>
notPhase2 == <<plotVars, lpVars, parkVars, sortVars, headerVars, fdVars, bdVars, filteredVars, sliceVars, phase1Vars, twoVars, memCmpVars, serVars, roundSizeVars>>
notHeader == <<plotVars, lpVars, parkVars, sortVars, phase2Vars, fdVars, bdVars, filteredVars, sliceVars, phase1Vars, twoVars, memCmpVars, serVars, roundSizeVars>>
notFd == <<plotVars, lpVars, parkVars, sortVars, phase2Vars, headerVars, bdVars, filteredVars, sliceVars, phase1Vars, twoVars, memCmpVars, serVars, roundSizeVars>>
notBd == <<plotVars, lpVars, parkVars, sortVars, phase2Vars, headerVars, fdVars, filteredVars, sliceVars, phase1Vars, twoVars, memCmpVars, serVars, roundSizeVars>>
notFiltered == <<plotVars, lpVars, parkVars, sortVars, phase2Vars, headerVars, fdVars, bdVars, sliceVars, phase1Vars, twoVars, memCmpVars, serVars, roundSizeVars>>
notSlice == <<plotVars, lpVars, parkVars, sortVars, phase2Vars, headerVars, fdVars, bdVars, filteredVars, phase1Vars, twoVars, memCmpVars, serVars, roundSizeVars>>
notPhase1 == <<plotVars, lpVars, parkVars, sortVars, phase2Vars, headerVars, fdVars, bdVars, filteredVars, sliceVars, twoVars, memCmpVars, serVars, roundSizeVars>>
notTwo == <<plotVars, lpVars, parkVars, sortVars, phase2Vars, headerVars, fdVars, bdVars, filteredVars, sliceVars, phase1Vars, memCmpVars, serVars, roundSizeVars>>
notMemCmp == <<plotVars, lpVars, parkVars, sortVars, phase2Vars, headerVars, fdVars, bdVars, filteredVars, sliceVars, phase1Vars, twoVars, serVars, roundSizeVars>>
notSer == <<plotVars, lpVars, parkVars, sortVars, phase2Vars, headerVars, fdVars, bdVars, filteredVars, sliceVars, phase1Vars, twoVars, memCmpVars, roundSizeVars>>
notRoundSize == <<plotVars, lpVars, parkVars, sortVars, phase2Vars, headerVars, fdVars, bdVars, filteredVars, sliceVars, phase1Vars, twoVars, memCmpVars, serVars>>

---------------------------------------------------------------------------
(* Plot-format constants (pos_constants.hpp).                              *)

kMinPlotSize == 18
kMaxPlotSize == 50
kMinBuckets == 16
kMaxBuckets == 128
kExtraBits == 6
kOffsetSize == 10
kVectorLens == <<0, 0, 1, 2, 4, 4, 3, 2>>    \* kVectorLens[0..7], 1-based here

\* kMemSortProportion = 0.75, kept as a fraction
kMemSortNum == 3
kMemSortDen == 4

Min(a, b) == IF a < b THEN a ELSE b
Max(a, b) == IF a > b THEN a ELSE b

RECURSIVE Pow2(_)
Pow2(n) == IF n = 0 THEN 1 ELSE 2 * Pow2(n - 1)

\* a * 2^e < b, evaluated without forming a * 2^e
RECURSIVE LtScaled(_, _, _)
LtScaled(a, e, b) ==
    IF e < 0 THEN a < b * Pow2(0 - e)
    ELSE IF e = 0 THEN a < b
    ELSE IF a >= b THEN FALSE
    ELSE LtScaled(2 * a, e - 1, b)

---------------------------------------------------------------------------
(* util.cpp                                                                *)

ByteAlign(num_bits) == num_bits + ((8 - (num_bits % 8)) % 8)

\* frexp gives a = frac * 2^exp with frac in [0.5, 1); frac is replaced by
\* 0.5, so the result is the largest power of two <= a (0 for a = 0).
RECURSIVE RoundPow2Down(_)
RoundPow2Down(a) ==
    IF a < 1 THEN 0
    ELSE IF a < 2 THEN 1
    ELSE 2 * RoundPow2Down(a \div 2)

\* the least power of two >= a
RECURSIVE RoundPow2Up(_)
RoundPow2Up(a) ==
    IF a <= 1 THEN 1 ELSE 2 * RoundPow2Up((a + 1) \div 2)

\* no rounding at all
RoundPow2None(a) == a

RoundPow2(a) == RoundPow2Down(a)

\* log2 of a power of two, as the uint32 the double is truncated to
RECURSIVE Log2(_)
Log2(n) == IF n <= 1 THEN 0 ELSE 1 + Log2(n \div 2)

---------------------------------------------------------------------------
(* entry_sizes.cpp                                                         *)

GetMaxEntrySize(k, table_index, phase_1_size) ==
    IF table_index = 1
    THEN IF phase_1_size THEN ByteAlign(k + kExtraBits + k) \div 8
         ELSE ByteAlign(k) \div 8
    ELSE IF table_index \in 2..6
    THEN IF phase_1_size
         THEN ByteAlign(k + kExtraBits + k + kOffsetSize
                        + k * kVectorLens[table_index + 2]) \div 8
         ELSE ByteAlign(Max(2 * k + kOffsetSize, 3 * k - 1)) \div 8
    ELSE ByteAlign(3 * k - 1) \div 8

---------------------------------------------------------------------------
(* CreatePlotDisk: parameter validation (plotter_disk.hpp 83..190).        *)
(* Sizes in bytes are kept in MiB where the code divides or multiplies by  *)
(* 1024 * 1024; quotients of doubles are kept as exact fractions.          *)

NoCall == [k |-> 0, buf |-> 0, nb |-> 0, stripe |-> 0, threads |-> 0,
           nobitfield |-> FALSE]

StripeSize(in) == IF in.stripe # 0 THEN in.stripe ELSE 65536
NumThreads(in) == IF in.threads # 0 THEN in.threads ELSE 2
BufMegabytes(in) == IF in.buf # 0 THEN in.buf ELSE 4608

ThreadMemory(in) ==
    (NumThreads(in) * (2 * (StripeSize(in) + 5000))
        * GetMaxEntrySize(in.k, 4, TRUE)) \div (1024 * 1024)

SubMbytes(in) ==
    5 + Min(BufMegabytes(in) \div 20, 50) + ThreadMemory(in)

\* memory_size / (1024 * 1024)
MemoryMb(in) == BufMegabytes(in) - SubMbytes(in)

\* max_table_size = 1.3 * 2^k * MaxTableEntry(k)
MaxTableEntry(k) ==
    LET sizes == {GetMaxEntrySize(k, i, TRUE) : i \in 1..7}
    IN  CHOOSE m \in sizes : \A x \in sizes : x <= m

CeilDiv(a, b) == (a + b - 1) \div b

\* ceil(max_table_size / (memory_size * kMemSortProportion)), memory_size > 0
SortRatioCeil(in) ==
    LET num == 13 * kMemSortDen * MaxTableEntry(in.k)
        den == 10 * kMemSortNum * MemoryMb(in)
    IN  IF in.k >= 20
        THEN CeilDiv(num * Pow2(in.k - 20), den)
        ELSE CeilDiv(num, den * Pow2(20 - in.k))

\* What frexp/ldexp leave of an infinite quotient (memory_size = 0) is not
\* specified: any power of two, or 0.
UnspecifiedBuckets == {0, 1, 64, 4096}

\* num_buckets as computed by lines 124..129, before the range checks
RawBuckets(in, u) ==
    IF in.nb # 0 THEN RoundPow2(in.nb)
    ELSE IF MemoryMb(in) = 0 THEN u
    ELSE 2 * RoundPow2(SortRatioCeil(in))

\* max_table_size / num_buckets < stripe_size * 30, num_buckets = 2^l
StripeTooLarge(in, nb) ==
    LtScaled(13 * MaxTableEntry(in.k), in.k - Log2(nb), 300 * StripeSize(in))

\* the exception raised (or "none") and the local num_buckets at that point
Raise(e, nb) == [err |-> e, num_buckets |-> nb]
Pass(nb) == [err |-> "none", num_buckets |-> nb]

\* a validation that lacks the directory checks of lines 180..190
ValidateNoDirs(in, e, u) ==
    IF in.k < kMinPlotSize \/ in.k > kMaxPlotSize
    THEN Raise("InvalidValue", 0)
    ELSE IF BufMegabytes(in) < 10 THEN Raise("InsufficientMemory", 0)
    ELSE IF SubMbytes(in) > BufMegabytes(in)
    THEN Raise("InsufficientMemory", 0)
    ELSE LET raw == RawBuckets(in, u)
             nb  == IF raw < kMinBuckets THEN kMinBuckets ELSE raw
         IN  IF raw < kMinBuckets /\ in.nb # 0 THEN Raise("InvalidValue", raw)
             ELSE IF raw >= kMinBuckets /\ raw > kMaxBuckets
             THEN IF in.nb # 0 THEN Raise("InvalidValue", raw)
                  ELSE Raise("InsufficientMemory", raw)
             ELSE IF StripeTooLarge(in, nb) THEN Raise("InvalidValue", nb)
             ELSE IF ~in.nobitfield /\ ~e.popcnt THEN Raise("InvalidValue", nb)
             ELSE Pass(nb)

\* lines 83..190: the first failing check raises
Validate(in, e, u) ==
    IF in.k < kMinPlotSize \/ in.k > kMaxPlotSize
    THEN Raise("InvalidValue", 0)
    ELSE IF BufMegabytes(in) < 10 THEN Raise("InsufficientMemory", 0)
    ELSE IF SubMbytes(in) > BufMegabytes(in)
    THEN Raise("InsufficientMemory", 0)
    ELSE LET raw == RawBuckets(in, u)
             nb  == IF raw < kMinBuckets THEN kMinBuckets ELSE raw
         IN  IF raw < kMinBuckets /\ in.nb # 0 THEN Raise("InvalidValue", raw)
             ELSE IF raw >= kMinBuckets /\ raw > kMaxBuckets
             THEN IF in.nb # 0 THEN Raise("InvalidValue", raw)
                  ELSE Raise("InsufficientMemory", raw)
             ELSE IF StripeTooLarge(in, nb) THEN Raise("InvalidValue", nb)
             ELSE IF ~in.nobitfield /\ ~e.popcnt THEN Raise("InvalidValue", nb)
             ELSE IF ~e.tmp_exists THEN Raise("InvalidValue", nb)
             ELSE IF ~e.tmp2_exists THEN Raise("InvalidValue", nb)
             ELSE IF ~e.final_exists THEN Raise("InvalidValue", nb)
             ELSE Pass(nb)

---------------------------------------------------------------------------
(* CreatePlotDisk: the call, the temporary files, the phases and the final *)
(* placement loop (plotter_disk.hpp 59..395).                              *)

\* tmp_1_filenames: the sort spare file and tables 1..7
Tmp1Files == <<"sort.tmp", "table1.tmp", "table2.tmp", "table3.tmp",
               "table4.tmp", "table5.tmp", "table6.tmp", "table7.tmp">>
Tmp2File == "tmp2/2.tmp"         \* tmp_2_filename
\* final_2_filename; the same path as tmp_2_filename when the directories
\* are the same, and then not a file of its own
Final2File == "final/2.tmp"
FinalFile == "final/plot"        \* final_filename

Tmp1Set == {Tmp1Files[i] : i \in 1..Len(Tmp1Files)}
Paths == Tmp1Set \cup {Tmp2File, Final2File, FinalFile}

\* the arguments the model calls CreatePlotDisk with
KValues == {17, 18, 32, 51}
BufValues == {0, 9, 10, 20}
BucketValues == {0, 8, 100, 200, 300}
StripeValues == {0, 2000, 50000}
ThreadValues == {0, 1}

Inputs ==
    [k : KValues, buf : BufValues, nb : BucketValues, stripe : StripeValues,
     threads : ThreadValues, nobitfield : BOOLEAN]

\* what the call finds: at most one of the three directories is missing,
\* and the cpu lacks popcnt only where the directories are all there
Envs ==
    {e \in [popcnt : BOOLEAN, tmp_exists : BOOLEAN, tmp2_exists : BOOLEAN,
            final_exists : BOOLEAN, samedir : BOOLEAN] :
        \/ e.tmp_exists /\ e.tmp2_exists /\ e.final_exists
        \/ e.popcnt /\ e.tmp_exists /\ e.tmp2_exists
        \/ e.popcnt /\ e.tmp_exists /\ e.final_exists
        \/ e.popcnt /\ e.tmp2_exists /\ e.final_exists}

\* files an earlier run may have left behind
StaleSets == {{}, {FinalFile}, Paths}

\* failed iterations of the placement loop the model follows
MaxRetries == 2

\* what an iteration did with the copy and with the rename: "none" (not
\* attempted), "ok" or "failed"
NoIteration == [copy |-> "none", rename |-> "none"]

PlotInit ==
    /\ pc = "start"
    /\ inp = NoCall
    /\ env \in Envs
    /\ err = "none"
    /\ failedAt = "none"
    /\ num_buckets = 0
    /\ log_num_buckets = 0
    /\ \E st \in StaleSets :
          fs = [p \in Paths |->
                   IF p \in st /\ ~(env.samedir /\ p = Final2File)
                   THEN "stale" ELSE "absent"]
    /\ fs_init = fs
    /\ bCopied = FALSE
    /\ bRenamed = FALSE
    /\ phases = <<>>
    /\ retries = 0
    /\ iter = NoIteration
    /\ impls = <<>>

\* no call of CreatePlotDisk is under way
PlotIdle ==
    /\ pc = "idle"
    /\ inp = NoCall
    /\ env = [popcnt |-> TRUE, tmp_exists |-> TRUE, tmp2_exists |-> TRUE,
              final_exists |-> TRUE, samedir |-> TRUE]
    /\ err = "none"
    /\ failedAt = "none"
    /\ num_buckets = 0
    /\ log_num_buckets = 0
    /\ fs = [p \in Paths |-> "absent"]
    /\ fs_init = fs
    /\ bCopied = FALSE
    /\ bRenamed = FALSE
    /\ phases = <<>>
    /\ retries = 0
    /\ iter = NoIteration
    /\ impls = <<>>

Throw(e, at) ==
    /\ pc' = "failed"
    /\ err' = e
    /\ failedAt' = at

Removed(f, S) == [p \in Paths |-> IF p \in S THEN "absent" ELSE f[p]]

\* a removal that forgets the temporary file of the second directory
StaleFilesNoTmp2 == Tmp1Set \cup {FinalFile}

\* the files lines 191..195 remove
StaleFiles == Tmp1Set \cup {Tmp2File, FinalFile}

\* a call that clears the old files first and validates afterwards
CreatePlotDisk_RemoveFirst ==
    /\ pc = "start"
    /\ \E in \in Inputs, u \in UnspecifiedBuckets :
          LET r == Validate(in, env, u)
          IN  /\ inp' = in
              /\ num_buckets' = r.num_buckets
              /\ log_num_buckets' =
                    IF r.num_buckets \in kMinBuckets..kMaxBuckets
                    THEN Log2(r.num_buckets) ELSE 0
              /\ IF r.err = "none"
                 THEN pc' = "remove" /\ UNCHANGED <<err, failedAt>>
                 ELSE Throw(r.err, "validate")
    /\ fs' = Removed(fs, StaleFiles)
    /\ UNCHANGED notPlot
    /\ UNCHANGED <<env, fs_init, bCopied, bRenamed, phases, retries, iter,
                   impls>>

\* lines 83..190: the call and its validation; no file is touched
CreatePlotDisk_Validate ==
    /\ pc = "start"
    /\ \E in \in Inputs, u \in UnspecifiedBuckets :
          LET r == Validate(in, env, u)
          IN  /\ inp' = in
              /\ num_buckets' = r.num_buckets
              /\ log_num_buckets' =
                    IF r.num_buckets \in kMinBuckets..kMaxBuckets
                    THEN Log2(r.num_buckets) ELSE 0
              /\ IF r.err = "none"
                 THEN pc' = "remove" /\ UNCHANGED <<err, failedAt>>
                 ELSE Throw(r.err, "validate")
    /\ UNCHANGED notPlot
    /\ UNCHANGED <<env, fs, fs_init, bCopied, bRenamed, phases, retries, iter,
                   impls>>


\* lines 191..195: fs::remove of every temporary file and of the final file
RemoveStale ==
    /\ pc = "remove"
    /\ fs' = Removed(fs, StaleFiles)
    /\ pc' = "open"
    /\ UNCHANGED notPlot
    /\ UNCHANGED <<inp, env, err, failedAt, num_buckets, log_num_buckets,
                   fs_init, bCopied, bRenamed, phases, retries, iter,
                   impls>>

\* the first n files of tmp_1_filenames, then tmp_2_filename
OpenOrder == Tmp1Files \o <<Tmp2File>>

Opened(f, n) ==
    [p \in Paths |->
        IF \E i \in 1..n : OpenOrder[i] = p THEN "empty" ELSE f[p]]

\* lines 199..203: FileDisk's constructor opens each file with "w+b"
\* (disk.cpp 75..104) and raises InvalidValue when fopen fails
OpenDisks ==
    /\ pc = "open"
    /\ \/ /\ fs' = Opened(fs, Len(OpenOrder))
          /\ pc' = "p1"
          /\ UNCHANGED <<err, failedAt>>
       \/ \E n \in 0..(Len(OpenOrder) - 1) :
             /\ fs' = Opened(fs, n)
             /\ Throw("InvalidValue", "open")
    /\ UNCHANGED notPlot
    /\ UNCHANGED <<inp, env, num_buckets, log_num_buckets, fs_init,
                   bCopied, bRenamed, phases, retries, iter,
                   impls>>

Written(f, S, c) == [p \in Paths |-> IF p \in S THEN c ELSE f[p]]

\* a choice of implementation in which only phase 2 looks at the flag
ImplementationPhase2Only(name, nobitfield) ==
    IF name = "phase1" THEN "RunPhase1"
    ELSE IF nobitfield /\ name = "phase2" THEN "b17" ELSE "bitfield"

\* lines 211, 228..323: phase 1 has one implementation; phases 2, 3 and 4
\* are the b17 functions in the branch of nobitfield, the bitfield ones in
\* the other
Implementation(name, nobitfield) ==
    IF name = "phase1" THEN "RunPhase1"
    ELSE IF nobitfield THEN "b17" ELSE "bitfield"

\* A phase returns, or raises and leaves what it has written so far.
RunPhase(at, next, name, S, c) ==
    /\ pc = at
    /\ \/ /\ fs' = Written(fs, S, c)
          /\ phases' = Append(phases, name)
          /\ impls' = Append(impls, Implementation(name, inp.nobitfield))
          /\ pc' = next
          /\ UNCHANGED <<err, failedAt>>
       \/ /\ fs' \in {fs, Written(fs, S, "partial")}
          /\ Throw("PhaseError", at)
          /\ UNCHANGED <<phases, impls>>
    /\ UNCHANGED notPlot
    /\ UNCHANGED <<inp, env, num_buckets, log_num_buckets, fs_init,
                   bCopied, bRenamed, retries, iter>>

\* lines 211..223
Phase1 == RunPhase("p1", "p2", "phase1", Tmp1Set, "work")

\* lines 237..248 (nobitfield) and 284..294
Phase2 == RunPhase("p2", "hdr", "phase2", Tmp1Set, "work")

\* lines 252, 298 and 399..448: FileDisk::Write retries, it never raises
WriteHeader ==
    /\ pc = "hdr"
    /\ fs' = Written(fs, {Tmp2File}, "header")
    /\ phases' = Append(phases, "header")
    /\ pc' = "p3"
    /\ UNCHANGED notPlot
    /\ UNCHANGED <<inp, env, err, failedAt, num_buckets, log_num_buckets,
                   fs_init, bCopied, bRenamed, retries, iter, impls>>

\* lines 257..270 and 303..314
Phase3 == RunPhase("p3", "p4", "phase3", {Tmp2File}, "parks")

\* lines 276 and 320
Phase4 == RunPhase("p4", "cleanup", "phase4", {Tmp2File}, "plot")

\* a clean-up that starts at table 1 and leaves the sort spare file
RemoveTmp1Tables(f) == Removed(f, Tmp1Set \ {Tmp1Files[1]})

RemoveTmp1All(f) == Removed(f, Tmp1Set)

\* lines 341..343
RemoveTmp1 ==
    /\ pc = "cleanup"
    /\ fs' = RemoveTmp1All(fs)
    /\ pc' = "place"
    /\ UNCHANGED notPlot
    /\ UNCHANGED <<inp, env, err, failedAt, num_buckets, log_num_buckets,
                   fs_init, bCopied, bRenamed, phases, retries, iter,
                   impls>>

\* fs::rename(from, to): replaces to, removes from
Renamed(f, from, to) ==
    [p \in Paths |-> IF p = to THEN f[from]
                     ELSE IF p = from THEN "absent" ELSE f[p]]

\* fs::copy(from, to, overwrite_existing)
Copied(f, from, to) == [p \in Paths |-> IF p = to THEN f[from] ELSE f[p]]

Attempt(tried, ok) == IF ~tried THEN "none" ELSE IF ok THEN "ok" ELSE "failed"

\* a loop condition that lets the loop end after any iteration
LoopAgainNever(renamed) == FALSE

\* line 394: while (!bRenamed)
LoopAgain(renamed) == ~renamed

\* lines 387..394: the loop sleeps; the model counts the sleeps up to MaxRetries
Sleep ==
    /\ retries' = IF retries < MaxRetries THEN retries + 1 ELSE retries
    /\ pc' = "place"

\* lines 348..358, 387..394: one iteration, temporary and final directory equal
SameDirIteration(rename_ok) ==
    /\ pc = "place"
    /\ env.samedir
    /\ iter' = [copy |-> "none", rename |-> Attempt(TRUE, rename_ok)]
    /\ bRenamed' = rename_ok
    /\ fs' = IF rename_ok THEN Renamed(fs, Tmp2File, FinalFile) ELSE fs
    /\ IF LoopAgain(bRenamed') THEN Sleep ELSE pc' = "done" /\ UNCHANGED retries
    /\ UNCHANGED notPlot
    /\ UNCHANGED <<inp, env, err, failedAt, num_buckets, log_num_buckets,
                   fs_init, bCopied, phases, impls>>

PlaceSameDir == \E rename_ok \in BOOLEAN : SameDirIteration(rename_ok)

\* a copy step that does not look at the error code
AfterCopyUnchecked(f, copied, ok) ==
    IF copied THEN [fs |-> f, bCopied |-> TRUE]
    ELSE [fs |-> Removed(Copied(f, Tmp2File, Final2File), {Tmp2File}),
          bCopied |-> TRUE]

\* the copy step of lines 360..374: the file system and bCopied after it
AfterCopy(f, copied, ok) ==
    IF copied THEN [fs |-> f, bCopied |-> TRUE]
    ELSE IF ok
    THEN [fs |-> Removed(Copied(f, Tmp2File, Final2File), {Tmp2File}),
          bCopied |-> TRUE]
    ELSE [fs |-> f, bCopied |-> FALSE]

\* lines 359..394: one iteration, the directories differ; a failed copy may
\* leave a torn final_2_filename
CrossDirIteration(copy_ok, torn, rename_ok) ==
    /\ pc = "place"
    /\ ~env.samedir
    /\ LET c == AfterCopy(fs, bCopied, copy_ok)
           f1 == IF ~bCopied /\ ~copy_ok /\ torn
                 THEN Written(c.fs, {Final2File}, "partial") ELSE c.fs
           try_rename == c.bCopied /\ ~bRenamed
       IN  /\ bCopied' = c.bCopied
           /\ iter' = [copy |-> Attempt(~bCopied, copy_ok),
                       rename |-> Attempt(try_rename, rename_ok)]
           /\ bRenamed' = (bRenamed \/ (try_rename /\ rename_ok))
           /\ fs' = IF try_rename /\ rename_ok
                    THEN Renamed(f1, Final2File, FinalFile) ELSE f1
    /\ IF LoopAgain(bRenamed') THEN Sleep ELSE pc' = "done" /\ UNCHANGED retries
    /\ UNCHANGED notPlot
    /\ UNCHANGED <<inp, env, err, failedAt, num_buckets, log_num_buckets,
                   fs_init, phases, impls>>

PlaceCrossDir ==
    \E copy_ok \in BOOLEAN, torn \in BOOLEAN, rename_ok \in BOOLEAN :
        CrossDirIteration(copy_ok, torn, rename_ok)

PlotNext ==
    \/ CreatePlotDisk_Validate
    \/ RemoveStale
    \/ OpenDisks
    \/ Phase1
    \/ Phase2
    \/ WriteHeader
    \/ Phase3
    \/ Phase4
    \/ RemoveTmp1
    \/ PlaceSameDir
    \/ PlaceCrossDir

---------------------------------------------------------------------------
(* Properties of CreatePlotDisk.                                           *)

BadK(in) == in.k < kMinPlotSize \/ in.k > kMaxPlotSize

MemShort(in) ==
    BufMegabytes(in) < 10 \/ SubMbytes(in) > BufMegabytes(in)

BadExplicitBuckets(in) ==
    /\ in.nb # 0
    /\ \/ RoundPow2Down(in.nb) < kMinBuckets
       \/ RoundPow2Down(in.nb) > kMaxBuckets

\* the automatically computed bucket count exceeds kMaxBuckets
AutoTooMany == inp.nb = 0 /\ num_buckets > kMaxBuckets

StripeCheckFails ==
    /\ num_buckets \in kMinBuckets..kMaxBuckets
    /\ StripeTooLarge(inp, num_buckets)

DirMissing == ~env.tmp_exists \/ ~env.tmp2_exists \/ ~env.final_exists

Validated == pc # "start"

\* C6 as stated, in the direction "only when": InvalidValue is raised only
\* for a bad k, a bad explicit bucket count or too large a stripe, and
\* InsufficientMemory only when buf_megabytes < 10 or sub_mbytes >
\* buf_megabytes.
C6_AsStated ==
    Validated /\ failedAt \in {"none", "validate"} =>
        /\ err = "InvalidValue" =>
              BadK(inp) \/ BadExplicitBuckets(inp) \/ StripeCheckFails
        /\ err = "InsufficientMemory" => MemShort(inp)

\* C6 amended: before phase 1 starts the first failing check decides.
\* InvalidValue is raised exactly when k is out of range, or (k valid and
\* the memory checks passed) an explicit bucket count rounded down to a
\* power of two is out of [kMinBuckets, kMaxBuckets], or (the bucket checks
\* passed too) the stripe is too large, bitfield plotting is asked of a cpu
\* without popcnt or a directory is missing, or a temporary file cannot be
\* opened.  InsufficientMemory is raised exactly when k is valid and
\* buf_megabytes < 10, sub_mbytes > buf_megabytes, or the automatically
\* computed bucket count exceeds kMaxBuckets.
C6_ErrorsExactly ==
    Validated /\ failedAt \in {"none", "validate", "open"} =>
        /\ err = "InvalidValue" <=>
              \/ BadK(inp)
              \/ /\ ~BadK(inp) /\ ~MemShort(inp)
                 /\ \/ BadExplicitBuckets(inp)
                    \/ /\ ~AutoTooMany
                       /\ \/ StripeCheckFails
                          \/ ~inp.nobitfield /\ ~env.popcnt
                          \/ DirMissing
                          \/ failedAt = "open"
        /\ err = "InsufficientMemory" <=>
              ~BadK(inp) /\ (MemShort(inp) \/ AutoTooMany)
        /\ err \in {"none", "InvalidValue", "InsufficientMemory"}

\* a call with valid k, enough memory and too many automatic buckets
C6_Witness ==
    /\ pc = "failed" /\ failedAt = "validate"
    /\ err = "InsufficientMemory"
    /\ ~MemShort(inp) /\ AutoTooMany

\* C7: a call that fails validation has changed no file: every path holds
\* what it held before the call, the final file included.
C7_ValidationTouchesNoFile ==
    pc = "failed" /\ failedAt = "validate" => fs = fs_init

\* a rejected call with files of an earlier run, the final file among them
C7_Witness ==
    /\ pc = "failed" /\ failedAt = "validate"
    /\ err = "InsufficientMemory"
    /\ fs[FinalFile] = "stale" /\ fs[Tmp2File] = "stale"

Clamp(n) ==
    IF n < kMinBuckets THEN kMinBuckets
    ELSE IF n > kMaxBuckets THEN kMaxBuckets ELSE n

\* the call computed num_buckets itself, from a non-zero memory_size
AutoComputed ==
    /\ Validated /\ inp.nb = 0
    /\ ~BadK(inp) /\ ~MemShort(inp) /\ MemoryMb(inp) > 0

TempFiles ==
    Tmp1Set \cup {Tmp2File} \cup (IF env.samedir THEN {} ELSE {Final2File})

\* C9: when CreatePlotDisk has returned, no temporary file exists and the
\* final file holds the complete plot.
C9_TempsGoneFinalComplete ==
    pc = "done" =>
        /\ \A p \in TempFiles : fs[p] = "absent"
        /\ fs[FinalFile] = "plot"

\* a return after a copy to a final directory that held an old .2.tmp
C9_Witness ==
    /\ pc = "done" /\ ~env.samedir
    /\ fs_init[Final2File] = "stale" /\ fs_init[Tmp1Files[1]] = "stale"
    /\ retries > 0

AllPhases == <<"phase1", "phase2", "header", "phase3", "phase4">>

\* C10: the final name changes only to the complete plot, only after all
\* four phases have returned and (directories differing) after the copy has
\* succeeded; once a phase has raised, the final name stays absent.
C10_FinalOnlyAfterPhases ==
    /\ [](err = "PhaseError" => fs[FinalFile] = "absent" /\ ~bRenamed)
    /\ [][fs'[FinalFile] # fs[FinalFile] /\ fs'[FinalFile] # "absent" =>
            /\ phases = AllPhases
            /\ fs'[FinalFile] = "plot"
            /\ (~env.samedir => bCopied')]_vars

\* the plot placed after a copy that failed once and left a torn file
C10_Witness ==
    /\ pc = "done" /\ ~env.samedir /\ bCopied
    /\ fs[FinalFile] = "plot" /\ retries > 0
    /\ fs_init[FinalFile] = "stale"

\* some attempt of the copy succeeds: the copy, while it is still to be
\* made, does go through
CopySucceeds ==
    /\ ~bCopied
    /\ \E torn \in BOOLEAN, rename_ok \in BOOLEAN :
          CrossDirIteration(TRUE, torn, rename_ok)

\* some attempt of the rename succeeds
RenameSucceeds ==
    \/ SameDirIteration(TRUE)
    \/ /\ bCopied
       /\ \E copy_ok \in BOOLEAN, torn \in BOOLEAN :
             CrossDirIteration(copy_ok, torn, TRUE)

InLoop == pc = "place"

PhasePrefixes == {SubSeq(AllPhases, 1, n) : n \in 0..Len(AllPhases)}

\* the implementations of phases 2, 3 and 4 that have returned
LaterImpls == {impls[i] : i \in 2..Len(impls)}

\* C12: the phases return in the order 1, 2, 3, 4, the header being written
\* between phase 2 and phase 3, each step after the one before it has
\* returned; phase 1 is always RunPhase1, and phases 2, 3 and 4 are all the
\* b17 functions when nobitfield is set and all the bitfield ones when it
\* is not.
C12_PhaseOrder ==
    /\ [](phases \in PhasePrefixes)
    /\ [][phases' # phases =>
            /\ phases' = Append(phases, AllPhases[Len(phases) + 1])
            /\ pc' # "failed"]_vars
    /\ [](Len(impls) = Len(SelectSeq(phases, LAMBDA n : n # "header")))
    /\ [](impls # <<>> => impls[1] = "RunPhase1")
    /\ [](LaterImpls \subseteq
             (IF inp.nobitfield THEN {"b17"} ELSE {"bitfield"}))

\* a legacy plot whose four phases have all returned
C12_Witness ==
    /\ phases = AllPhases /\ inp.nobitfield
    /\ impls = <<"RunPhase1", "b17", "b17", "b17">>
    /\ pc = "done"

\* the call did not stop at a check of lines 83..143: it went on, or it
\* raised InvalidValue for a valid k and a bucket count that passed
PastBucketValidation ==
    /\ pc # "start"
    /\ failedAt = "validate" =>
           /\ err = "InvalidValue"
           /\ inp.k \in kMinPlotSize .. kMaxPlotSize
           /\ inp.nb # 0 => RoundPow2(inp.nb) \in kMinBuckets .. kMaxBuckets

IsPowerOfTwo(n) == \E l \in 0 .. 30 : n = Pow2(l)

\* C24: whenever CreatePlotDisk gets past the validation of the buckets,
\* num_buckets is a power of two within [kMinBuckets, kMaxBuckets] and
\* log_num_buckets is its exact base-2 logarithm, for every num_buckets
\* supplied (powers of two or not) and for every computed one.
C24_BucketsPowerOfTwo ==
    PastBucketValidation =>
        /\ IsPowerOfTwo(num_buckets)
        /\ num_buckets \in kMinBuckets .. kMaxBuckets
        /\ Pow2(log_num_buckets) = num_buckets

\* a supplied count that is no power of two has been rounded and accepted
C24_Witness ==
    /\ pc = "p1"
    /\ inp.nb = 100
    /\ num_buckets = 64
    /\ log_num_buckets = 6

\* a computed count in the range, the stripe check failing after it
C24_WitnessComputed ==
    /\ pc = "failed" /\ failedAt = "validate" /\ err = "InvalidValue"
    /\ inp.nb = 0
    /\ inp.k \in kMinPlotSize .. kMaxPlotSize
    /\ num_buckets > kMinBuckets

\* the temporary files the phases work on
WorkFiles == Tmp1Set \cup {Tmp2File}

\* C23: a run that passes validation removes what an earlier run left at
\* the paths of the sort spare file, of tables 1..7 and of the .2.tmp file
\* before phase 1 starts: from the removal on, none of these files holds
\* bytes of an earlier run, so no phase reads such bytes.
C23_StaleTempsRemoved ==
    (pc \notin {"start", "remove"} /\ failedAt # "validate")
        => \A p \in WorkFiles : fs[p] # "stale"

\* the removal has run on left-over files and no file is open yet
C23_Witness ==
    /\ pc = "open"
    /\ \A p \in WorkFiles : fs_init[p] = "stale" /\ fs[p] = "absent"

---------------------------------------------------------------------------
(* Line points (phase 3, step 3): an unordered pair of positions of table  *)
(* t-1 becomes one number.                                                 *)

KLp == 3

\* the positions of a table of the line-point exercise: [0, 2^KLp)
LpN == Pow2(KLp)

Choose2(n) == (n * (n - 1)) \div 2

\* the triangular number taken one row too far
LinePointRowOff(x, y) == Choose2(y + 1) + x

LinePoint(x, y) == Choose2(y) + x

RECURSIVE LargestRow(_, _)
\* the largest y >= from with C(y, 2) <= lp
LargestRow(lp, from) ==
    IF Choose2(from + 1) <= lp THEN LargestRow(lp, from + 1) ELSE from

LinePointToSquare(lp) ==
    LET y == LargestRow(lp, 0) IN <<lp - Choose2(y), y>>

Squares == {sq \in (0 .. LpN - 1) \X (0 .. LpN - 1) : sq[1] <= sq[2]}

LpIdle ==
    /\ lpc = "idle"
    /\ sq_a = <<0, 0>> /\ sq_b = <<0, 0>>
    /\ lp_a = 0 /\ lp_b = 0
    /\ lp_in = 0
    /\ sq_out = <<0, 0>>

LpInit ==
    /\ lpc = "in"
    /\ sq_a = <<0, 0>> /\ sq_b = <<0, 0>>
    /\ lp_a = 0 /\ lp_b = 0
    /\ lp_in = 0
    /\ sq_out = <<0, 0>>

\* two pairs are turned into line points
ToLinePoint ==
    /\ lpc = "in"
    /\ \E a \in Squares, b \in Squares :
          /\ sq_a' = a
          /\ sq_b' = b
          /\ lp_a' = LinePoint(a[1], a[2])
          /\ lp_b' = LinePoint(b[1], b[2])
    /\ lpc' = "enc"
    /\ UNCHANGED <<lp_in, sq_out>>
    /\ UNCHANGED notLp

\* a value of the range is turned back into a pair
ToSquare ==
    /\ lpc = "in"
    /\ \E v \in 0 .. Choose2(LpN) - 1 :
          /\ lp_in' = v
          /\ sq_out' = LinePointToSquare(v)
    /\ lpc' = "dec"
    /\ UNCHANGED <<sq_a, sq_b, lp_a, lp_b>>
    /\ UNCHANGED notLp

LpNext ==
    \/ ToLinePoint
    \/ ToSquare

---------------------------------------------------------------------------
(* Properties of the line point.                                           *)

Distinct(sq) == sq[1] < sq[2]

LpBijective(a, b, la, lb) ==
    /\ la \in 0 .. Choose2(LpN) - 1
    /\ (la = lb => a = b)
    /\ LinePointToSquare(la) = a

\* C4 as stated: over the pairs with x <= y the line point is injective,
\* lands in [0, C(2^k, 2)) and is undone by the inverse.
C4_AsStated ==
    lpc = "enc" => LpBijective(sq_a, sq_b, lp_a, lp_b)

\* C4: over the pairs with x < y, x and y in [0, 2^k), the line point
\* C(y, 2) + x is a bijection onto [0, C(2^k, 2)): two different pairs get
\* two different line points, the line point lies in the range and the
\* inverse returns the pair; every value of the range is the line point of
\* the pair the inverse returns for it.
C4_Bijection ==
    /\ (lpc = "enc" /\ Distinct(sq_a) /\ Distinct(sq_b))
          => LpBijective(sq_a, sq_b, lp_a, lp_b)
    /\ lpc = "dec"
          => /\ Distinct(sq_out)
             /\ sq_out[2] < LpN
             /\ LinePoint(sq_out[1], sq_out[2]) = lp_in

C4_Witness ==
    /\ lpc = "enc"
    /\ Distinct(sq_a) /\ Distinct(sq_b)
    /\ sq_a # sq_b
    /\ sq_a[1] > 0
    /\ lp_a = Choose2(LpN) - 1

---------------------------------------------------------------------------
(* Parks (phase 3, step 4): a group of sorted line points is stored as one *)
(* anchor and, for every later line point, the difference to the one       *)
(* before it, cut into a stub and a delta.                                 *)

kStubMinusBits == 3

MaxParkEntries == 3

\* the k of the park exercise
ParkK == kMinPlotSize

StubBits(k) == k - kStubMinusBits

\* park_deltas holds bytes
DeltaByte(d) == d % 256

\* the smallest difference whose delta no longer fits park_deltas
DeltaLimit(k) == Pow2(StubBits(k) + 8)

Zeros(n) == [i \in 1 .. n |-> 0]

WritePark(lps, k) ==
    LET n == Len(lps)
        diff(i) == lps[i + 1] - lps[i]
    IN  [anchor |-> lps[1],
         stubs  |-> [i \in 1 .. n - 1 |-> diff(i) % Pow2(StubBits(k))]
                       \o Zeros(MaxParkEntries - n),
         deltas |-> [i \in 1 .. n - 1 |->
                        DeltaByte(diff(i) \div Pow2(StubBits(k)))]]

RECURSIVE ReadLinePoints(_, _, _, _)
\* the line points of park p from its entry i on, prev being entry i - 1
ReadLinePoints(p, k, i, prev) ==
    IF i > Len(p.deltas) THEN <<>>
    ELSE LET lp == prev + p.deltas[i] * Pow2(StubBits(k)) + p.stubs[i]
         IN  <<lp>> \o ReadLinePoints(p, k, i + 1, lp)

ReadPark(p, k) == <<p.anchor>> \o ReadLinePoints(p, k, 1, p.anchor)

ParkLinePoints ==
    LET S == Pow2(StubBits(ParkK))
        L == DeltaLimit(ParkK)
    IN  {0, 1, S - 1, S, L - 1, L, L + S + 1}

IsSorted(s) == \A i \in 1 .. Len(s) - 1 : s[i] <= s[i + 1]

ParkGroups ==
    UNION {{s \in [1 .. n -> ParkLinePoints] : IsSorted(s)} :
              n \in 1 .. MaxParkEntries}

NoPark == [anchor |-> 0, stubs |-> <<>>, deltas |-> <<>>]

ParkIdle ==
    /\ ppc = "idle"
    /\ park_in = <<>>
    /\ park = NoPark
    /\ park_out = <<>>

ParkInit ==
    /\ ppc = "in"
    /\ park_in \in ParkGroups
    /\ park = NoPark
    /\ park_out = <<>>

WriteParkToFile ==
    /\ ppc = "in"
    /\ park' = WritePark(park_in, ParkK)
    /\ ppc' = "written"
    /\ UNCHANGED <<park_in, park_out>>
    /\ UNCHANGED notPark

ReadParkFromFile ==
    /\ ppc = "written"
    /\ park_out' = ReadPark(park, ParkK)
    /\ ppc' = "read"
    /\ UNCHANGED <<park_in, park>>
    /\ UNCHANGED notPark

ParkNext ==
    \/ WriteParkToFile
    \/ ReadParkFromFile

---------------------------------------------------------------------------
(* Properties of the park.                                                 *)

\* C5: every sorted group of at most kEntriesPerPark line points, a group
\* shorter than a full park included, is read back from its park
\* unchanged.
C5_RoundTrip ==
    ppc = "read" => park_out = park_in

---------------------------------------------------------------------------
(* Bytes and bits (util).  A 64-bit word is a sequence of 64 bits, most    *)
(* significant first, so that no shift leaves the range of the integers.   *)

ByteBits(b) == [i \in 1 .. 8 |-> (b \div Pow2(8 - i)) % 2]

\* byte i (from 0) of a buffer; the bytes that follow the buffer read as 0
ByteAt(bytes, i) == IF i + 1 <= Len(bytes) THEN bytes[i + 1] ELSE 0

EightBytesToInt(bytes, off) ==
    [i \in 1 .. 64 |-> ByteBits(ByteAt(bytes, off + ((i - 1) \div 8)))[((i - 1) % 8) + 1]]

ShiftLeft(w, n) == [i \in 1 .. 64 |-> IF i + n <= 64 THEN w[i + n] ELSE 0]

ShiftRight(w, n) == [i \in 1 .. 64 |-> IF i - n >= 1 THEN w[i - n] ELSE 0]

RECURSIVE BitsToNat(_, _, _)
\* the number the bits first .. last of w spell
BitsToNat(w, first, last) ==
    IF first > last THEN 0 ELSE 2 * BitsToNat(w, first, last - 1) + w[last]

\* the number a word spells: its leading zeros add nothing
WordToNat(w) ==
    LET ones == {i \in 1 .. 64 : w[i] = 1}
    IN  IF ones = {} THEN 0
        ELSE BitsToNat(w, CHOOSE i \in ones : \A j \in ones : i <= j, 64)

\* SliceInt64FromBytes without the move to the first sliced byte
SliceWordNoMove(bytes, start_bit, num_bits) ==
    ShiftRight(ShiftLeft(EightBytesToInt(bytes, 0), start_bit), 64 - num_bits)

\* the 64-bit word SliceInt64FromBytes returns
SliceWord(bytes, start_bit, num_bits) ==
    LET moved == start_bit + num_bits > 64
        off   == IF moved THEN start_bit \div 8 ELSE 0
        sb    == IF moved THEN start_bit % 8 ELSE start_bit
        tmp   == EightBytesToInt(bytes, off)
    IN  ShiftRight(ShiftLeft(tmp, sb), 64 - num_bits)

SliceInt64FromBytes(bytes, start_bit, num_bits) ==
    WordToNat(SliceWord(bytes, start_bit, num_bits))

\* a | b on 64-bit words
OrWord(a, b) == [i \in 1 .. 64 |-> IF a[i] = 1 \/ b[i] = 1 THEN 1 ELSE 0]

\* a byte widened to a 64-bit word
ByteToWord(b) == [i \in 1 .. 64 |-> IF i <= 56 THEN 0 ELSE ByteBits(b)[i - 56]]

\* SliceInt64FromBytesFull without the bits of the ninth byte
SliceFullNoNinthByte(bytes, start_bit, num_bits) ==
    SliceWord(bytes, start_bit, num_bits)

\* the 64-bit word SliceInt64FromBytesFull returns
SliceInt64FromBytesFull(bytes, start_bit, num_bits) ==
    LET last_bit == start_bit + num_bits
        r        == SliceWord(bytes, start_bit, num_bits)
    IN  IF (start_bit % 8) + num_bits > 64
        THEN OrWord(r, ShiftRight(ByteToWord(ByteAt(bytes, last_bit \div 8)),
                                  8 - (last_bit % 8)))
        ELSE r

\* the 128-bit word SliceInt128FromBytes returns: 128 bits, most
\* significant first
SliceInt128FromBytes(bytes, start_bit, num_bits) ==
    IF num_bits <= 64
    THEN [i \in 1 .. 64 |-> 0] \o SliceInt64FromBytesFull(bytes, start_bit, num_bits)
    ELSE LET num_bits_high == num_bits - 64
             high == SliceInt64FromBytesFull(bytes, start_bit, num_bits_high)
             low  == SliceInt64FromBytesFull(bytes, start_bit + num_bits_high, 64)
         IN  high \o low

\* the 8 bytes IntToEightBytes writes for a 64-bit word
IntToEightBytes(input) ==
    [i \in 1 .. 8 |-> BitsToNat(input, 8 * (i - 1) + 1, 8 * i)]

ExtractNum(bytes, len_bytes, begin_bits, take_bits) ==
    LET take == IF (begin_bits + take_bits) \div 8 > len_bytes - 1
                THEN len_bytes * 8 - begin_bits
                ELSE take_bits
    IN  SliceInt64FromBytes(bytes, begin_bits, take)

RECURSIVE RoundSizeFrom(_, _)
RoundSizeFrom(result, size) ==
    IF result < size THEN RoundSizeFrom(result * 2, size) ELSE result

RoundSize(size) == RoundSizeFrom(1, size * 2) + 50

RECURSIVE MemCmpFrom(_, _, _, _)
\* the loop of MemCmpBits from byte i (from 0) on
MemCmpFrom(left_arr, right_arr, i, len) ==
    IF i >= len THEN 0
    ELSE IF left_arr[i + 1] # right_arr[i + 1]
         THEN left_arr[i + 1] - right_arr[i + 1]
         ELSE MemCmpFrom(left_arr, right_arr, i + 1, len)

\* a comparison that takes the whole start byte
MemCmpBitsNoMask(left_arr, right_arr, len, bits_begin) ==
    MemCmpFrom(left_arr, right_arr, bits_begin \div 8, len)

MemCmpBits(left_arr, right_arr, len, bits_begin) ==
    LET start_byte == bits_begin \div 8
        mask == Pow2(8 - (bits_begin % 8))
        l == left_arr[start_byte + 1] % mask
        r == right_arr[start_byte + 1] % mask
    IN  IF l # r THEN l - r
        ELSE MemCmpFrom(left_arr, right_arr, start_byte + 1, len)

---------------------------------------------------------------------------
(* The in-memory sorts of one bucket.                                      *)

IsPositionEmpty(entry) == \A i \in 1 .. Len(entry) : entry[i] = 0

RECURSIVE BucketLength(_, _)
\* the least bucket_length >= from with 2^bucket_length >= 2 * num_entries
BucketLength(num_entries, from) ==
    IF Pow2(from) < 2 * num_entries
    THEN BucketLength(num_entries, from + 1) ELSE from

RECURSIVE Probe(_, _, _, _, _)
\* entry e looks for its slot from slot pos on; the smaller entry stays
Probe(memory, pos, e, entry_len, bits_begin) ==
    IF pos \in DOMAIN memory /\ ~IsPositionEmpty(memory[pos])
    THEN IF MemCmpBits(memory[pos], e, entry_len, bits_begin) > 0
         THEN Probe([memory EXCEPT ![pos] = e], pos + 1, memory[pos],
                    entry_len, bits_begin)
         ELSE Probe(memory, pos + 1, e, entry_len, bits_begin)
    ELSE [memory EXCEPT ![pos] = e]

RECURSIVE Place(_, _, _, _, _, _)
\* the entries of the bucket file from entry i on are put into their slots
Place(memory, file, i, entry_len, bits_begin, bucket_length) ==
    IF i > Len(file) THEN memory
    ELSE Place(Probe(memory,
                     ExtractNum(file[i], entry_len, bits_begin, bucket_length),
                     file[i], entry_len, bits_begin),
               file, i + 1, entry_len, bits_begin, bucket_length)

RECURSIVE Compact(_, _, _, _)
\* the occupied slots from pos on move to the front of the memory
Compact(memory, pos, entries_written, num_entries) ==
    IF entries_written < num_entries /\ pos \in DOMAIN memory
    THEN IF ~IsPositionEmpty(memory[pos])
         THEN Compact([memory EXCEPT ![entries_written] = memory[pos]],
                      pos + 1, entries_written + 1, num_entries)
         ELSE Compact(memory, pos + 1, entries_written, num_entries)
    ELSE memory

\* UniformSort::SortToMemory: the first num_entries entries of the memory
SortToMemory(file, entry_len, num_entries, bits_begin) ==
    LET slots  == RoundSize(num_entries)
        zeroed == [p \in 0 .. slots - 1 |-> [i \in 1 .. entry_len |-> 0]]
        placed == Place(zeroed, file, 1, entry_len, bits_begin,
                        BucketLength(num_entries, 0))
        packed == Compact(placed, 0, 0, num_entries)
    IN  [i \in 1 .. num_entries |-> packed[i - 1]]

RECURSIVE InsertEntry(_, _, _, _)
\* e goes before the first entry of the sorted run s that is larger
InsertEntry(s, e, entry_len, bits_begin) ==
    IF s = <<>> THEN <<e>>
    ELSE IF MemCmpBits(s[Len(s)], e, entry_len, bits_begin) > 0
         THEN Append(InsertEntry(SubSeq(s, 1, Len(s) - 1), e,
                                 entry_len, bits_begin), s[Len(s)])
         ELSE Append(s, e)

RECURSIVE SortInner(_, _, _, _)
\* the first n entries of the memory in order (a run of at most five
\* entries is sorted by insertion)
SortInner(memory, n, entry_len, bits_begin) ==
    IF n = 0 THEN <<>>
    ELSE InsertEntry(SortInner(memory, n - 1, entry_len, bits_begin),
                     memory[n], entry_len, bits_begin)

\* QuickSort::Sort
QuickSort(memory, entry_len, num_entries, bits_begin) ==
    SortInner(memory, num_entries, entry_len, bits_begin)

---------------------------------------------------------------------------
(* The sort manager.  sm is the SortManager object; a bucket holds what    *)
(* its file holds and what its BufferedDisk has not written yet.           *)

MaxSortEntries == 3

Strategies == {"uniform", "quicksort", "quicksort_last"}

EntrySizeValues == {2}
LogNumBucketsValues == {2}
BeginBitsValues == {0, 4}
SortStripeValues == {1}

\* memory for three entries, and memory that uniform sort fits in
SortMemoryValues == {6, 200}

\* an entry with first byte a and last byte b
Ent(a, b, entry_size) == <<a>> \o Zeros(entry_size - 2) \o <<b>>

SortEntries(entry_size) ==
    {Zeros(entry_size), Ent(16, 0, entry_size), Ent(3, 128, entry_size),
     Ent(7, 1, entry_size), Ent(15, 255, entry_size), Ent(247, 1, entry_size)}

EmptyBucket == [write_pointer |-> 0, file |-> <<>>, cache |-> <<>>]

\* SortManager::SortManager
NewSortManager(memory_size, log_nb, entry_size, begin_bits, stripe, strat) ==
    [memory_start_ |-> <<>>,
     allocated |-> FALSE,
     memory_size_ |-> memory_size,
     entry_size_ |-> entry_size,
     begin_bits_ |-> begin_bits,
     log_num_buckets_ |-> log_nb,
     buckets_ |-> [i \in 1 .. Pow2(log_nb) |-> EmptyBucket],
     prev_bucket_buf_size |-> 2 * stripe * entry_size,
     prev_bucket_buf_ |-> <<>>,
     prev_bucket_position_start |-> 0,
     final_position_start |-> 0,
     final_position_end |-> 0,
     next_bucket_to_sort |-> 0,
     strategy_ |-> strat,
     error |-> "none"]

NoSortManager == NewSortManager(0, 0, 1, 0, 0, "uniform")

BucketIndex(m, entry) ==
    ExtractNum(entry, m.entry_size_, m.begin_bits_, m.log_num_buckets_)

\* SortManager::AddToCache
AddToCache(m, entry) ==
    LET i == BucketIndex(m, entry) + 1
        b == m.buckets_[i]
    IN  [m EXCEPT !.buckets_[i] =
            [b EXCEPT !.cache = Append(b.cache, entry),
                      !.write_pointer = b.write_pointer + m.entry_size_]]

\* SortManager::FlushCache
FlushCache(m) ==
    [m EXCEPT !.buckets_ =
                 [i \in DOMAIN m.buckets_ |->
                     [m.buckets_[i] EXCEPT
                         !.file = m.buckets_[i].file \o m.buckets_[i].cache,
                         !.cache = <<>>]],
              !.final_position_end = 0,
              !.memory_start_ = <<>>,
              !.allocated = FALSE]

\* SortManager::SortBucket
SortBucket(m) ==
    LET bucket_i == m.next_bucket_to_sort + 1
        b == m.buckets_[bucket_i]
        bucket_entries == b.write_pointer \div m.entry_size_
        entries_fit_in_memory == m.memory_size_ \div m.entry_size_
        last_bucket ==
            \/ bucket_i = Len(m.buckets_)
            \/ m.buckets_[bucket_i + 1].write_pointer = 0
        force_quicksort ==
            \/ m.strategy_ = "quicksort"
            \/ m.strategy_ = "quicksort_last" /\ last_bucket
        bits_begin == m.begin_bits_ + m.log_num_buckets_
    IN  IF m.next_bucket_to_sort >= Len(m.buckets_)
        THEN [m EXCEPT !.error = "InvalidValue", !.allocated = TRUE]
        ELSE IF bucket_entries > entries_fit_in_memory
        THEN [m EXCEPT !.error = "InsufficientMemory", !.allocated = TRUE]
        ELSE [m EXCEPT
                !.memory_start_ =
                    IF /\ ~force_quicksort
                       /\ RoundSize(bucket_entries) * m.entry_size_
                             <= m.memory_size_
                    THEN SortToMemory(b.file, m.entry_size_, bucket_entries,
                                      bits_begin)
                    ELSE QuickSort(b.file, m.entry_size_, bucket_entries,
                                   bits_begin),
                !.allocated = TRUE,
                !.buckets_[bucket_i].file = <<>>,
                !.final_position_start = m.final_position_end,
                !.final_position_end = m.final_position_end + b.write_pointer,
                !.next_bucket_to_sort = m.next_bucket_to_sort + 1]

RECURSIVE SortUpTo(_, _)
\* the loop of ReadEntry: buckets are sorted until one covers the position
SortUpTo(m, position) ==
    IF m.error = "none" /\ position >= m.final_position_end
    THEN SortUpTo(SortBucket(m), position)
    ELSE m

\* entry i (from 0) of a buffer that was zeroed before it was filled
BufferEntry(buf, i, entry_size) ==
    IF i + 1 <= Len(buf) THEN buf[i + 1] ELSE Zeros(entry_size)

\* SortManager::ReadEntry: the manager afterwards and the entry returned
ReadEntry(m, position) ==
    IF position < m.final_position_start
    THEN IF ~(position >= m.prev_bucket_position_start)
         THEN [m |-> [m EXCEPT !.error = "InvalidState"],
               entry |-> Zeros(m.entry_size_)]
         ELSE [m |-> m,
               entry |-> BufferEntry(m.prev_bucket_buf_,
                            (position - m.prev_bucket_position_start)
                               \div m.entry_size_,
                            m.entry_size_)]
    ELSE LET s == SortUpTo(m, position)
         IN  IF s.error # "none"
             THEN [m |-> s, entry |-> Zeros(m.entry_size_)]
             ELSE [m |-> s,
                   entry |-> s.memory_start_[
                      ((position - s.final_position_start)
                          \div s.entry_size_) + 1]]

\* SortManager::CloseToNewBucket
CloseToNewBucket(m, position) ==
    IF ~(position <= m.final_position_end)
    THEN m.next_bucket_to_sort < Len(m.buckets_)
    ELSE /\ position + (m.prev_bucket_buf_size \div 2) >= m.final_position_end
         /\ m.next_bucket_to_sort < Len(m.buckets_)

\* a TriggerNewBucket that lets the window of the new bucket start at the
\* position of the caller
TriggerNewBucketAtPosition(m, position) ==
    IF ~(position <= m.final_position_end)
    THEN [m EXCEPT !.error = "InvalidValue"]
    ELSE IF ~(position >= m.final_position_start)
    THEN [m EXCEPT !.error = "InvalidValue"]
    ELSE LET s == SortBucket(m)
         IN  IF s.error # "none" THEN s
             ELSE [s EXCEPT !.prev_bucket_position_start = position,
                            !.final_position_start = position]

\* SortManager::TriggerNewBucket
TriggerNewBucket(m, position) ==
    IF ~(position <= m.final_position_end)
    THEN [m EXCEPT !.error = "InvalidValue"]
    ELSE IF ~(position >= m.final_position_start)
    THEN [m EXCEPT !.error = "InvalidValue"]
    ELSE LET first == ((position - m.final_position_start)
                          \div m.entry_size_) + 1
             kept == IF m.allocated
                     THEN [m EXCEPT !.prev_bucket_buf_ =
                              SubSeq(m.memory_start_, first,
                                     Len(m.memory_start_))]
                     ELSE m
             s == SortBucket(kept)
         IN  IF s.error # "none" THEN s
             ELSE [s EXCEPT !.prev_bucket_position_start = position]

TotalBytes(m) ==
    LET RECURSIVE Sum(_)
        Sum(i) == IF i = 0 THEN 0
                  ELSE Sum(i - 1) + m.buckets_[i].write_pointer
    IN  Sum(Len(m.buckets_))

SortIdle ==
    /\ spc = "idle"
    /\ sm = NoSortManager
    /\ added = <<>>
    /\ read_pos = 0
    /\ emitted = <<>>

SortInit ==
    /\ spc = "ingest"
    /\ \E memory_size \in SortMemoryValues,
          log_nb \in LogNumBucketsValues,
          entry_size \in EntrySizeValues,
          begin_bits \in BeginBitsValues,
          stripe_size \in SortStripeValues,
          sort_strategy \in Strategies :
          sm = NewSortManager(memory_size, log_nb, entry_size, begin_bits,
                              stripe_size, sort_strategy)
    /\ added = <<>>
    /\ read_pos = 0
    /\ emitted = <<>>

\* a client adds one entry
Add ==
    /\ spc = "ingest"
    /\ Len(added) < MaxSortEntries
    /\ \E entry \in SortEntries(sm.entry_size_) :
          /\ sm' = AddToCache(sm, entry)
          /\ added' = Append(added, entry)
    /\ UNCHANGED <<spc, read_pos, emitted>>
    /\ UNCHANGED notSort

\* the client has added its entries and flushes
Flush ==
    /\ spc = "ingest"
    /\ sm' = FlushCache(sm)
    /\ spc' = "emit"
    /\ UNCHANGED <<added, read_pos, emitted>>
    /\ UNCHANGED notSort

\* the reader, close to the end of the sorted bucket, asks for the next
Trigger ==
    /\ spc = "emit"
    /\ sm.error = "none"
    /\ read_pos < TotalBytes(sm)
    /\ CloseToNewBucket(sm, read_pos)
    /\ read_pos >= sm.final_position_start
    /\ sm' = TriggerNewBucket(sm, read_pos)
    /\ UNCHANGED <<spc, added, read_pos, emitted>>
    /\ UNCHANGED notSort

\* the reader reads the entry at its position and moves on by one entry
Read ==
    /\ spc = "emit"
    /\ sm.error = "none"
    /\ read_pos < TotalBytes(sm)
    /\ LET r == ReadEntry(sm, read_pos)
       IN  /\ sm' = r.m
           /\ IF r.m.error = "none"
              THEN /\ emitted' = Append(emitted, r.entry)
                   /\ read_pos' = read_pos + sm.entry_size_
              ELSE UNCHANGED <<emitted, read_pos>>
    /\ UNCHANGED <<spc, added>>
    /\ UNCHANGED notSort

SortNext ==
    \/ Add
    \/ Flush
    \/ Trigger
    \/ Read

---------------------------------------------------------------------------
(* Properties of the sort manager.                                         *)

RECURSIVE BytesToNat(_, _)
\* the number the first n bytes of an entry spell
BytesToNat(entry, n) ==
    IF n = 0 THEN 0 ELSE 256 * BytesToNat(entry, n - 1) + entry[n]

\* the key of an entry: its bits from begin_bits on, as a number
KeyOf(entry, begin_bits) ==
    BytesToNat(entry, Len(entry)) % Pow2(8 * Len(entry) - begin_bits)

NonDecreasing(s, begin_bits) ==
    \A i \in 1 .. Len(s) - 1 :
        KeyOf(s[i], begin_bits) <= KeyOf(s[i + 1], begin_bits)

\* C1: the entries read at successive positions after the flush are
\* non-decreasing under the key made of the entry bits from begin_bits on,
\* whatever entries were added and whatever the strategy.
C1_EmittedSorted ==
    spc = "emit" => NonDecreasing(emitted, sm.begin_bits_)

RECURSIVE AddAll(_, _, _)
\* the manager after AddToCache of the entries from entry i on
AddAll(m, entries, i) ==
    IF i > Len(entries) THEN m
    ELSE AddAll(AddToCache(m, entries[i]), entries, i + 1)

RECURSIVE ReadAll(_, _)
\* the entries ReadEntry hands out from position on, up to the first error
ReadAll(m, position) ==
    IF m.error # "none" \/ position >= TotalBytes(m) THEN <<>>
    ELSE LET r == ReadEntry(m, position)
         IN  IF r.m.error # "none" THEN <<>>
             ELSE <<r.entry>> \o ReadAll(r.m, position + m.entry_size_)

\* what a sort manager built like m, but with the given strategy, hands
\* out for the entries added
SortedWith(m, entries, strategy) ==
    LET fresh == NewSortManager(m.memory_size_, m.log_num_buckets_,
                                m.entry_size_, m.begin_bits_,
                                m.prev_bucket_buf_size \div (2 * m.entry_size_),
                                strategy)
    IN  ReadAll(FlushCache(AddAll(fresh, entries, 1)), 0)

IsPrefix(s, t) == Len(s) <= Len(t) /\ s = SubSeq(t, 1, Len(s))

\* C22: the choice of the in-memory sort of a bucket is not observable:
\* whatever the strategy and the memory, the entries read out of the sort
\* manager are those a manager that sorts every bucket with quicksort
\* hands out for the same entries.
C22_SortChoiceUnobservable ==
    spc = "emit" => IsPrefix(emitted, SortedWith(sm, added, "quicksort"))

\* how often e occurs in the sequence s
Occurrences(s, e) == Cardinality({i \in 1 .. Len(s) : s[i] = e})

\* the reader has read every position from 0 to the total of bytes added
ReadToEnd == spc = "emit" /\ sm.error = "none" /\ read_pos = TotalBytes(sm)

\* C33: no entry is lost and none is duplicated: the entries read over the
\* positions 0 .. total in steps of entry_size are a permutation of the
\* entries added, whatever their bytes (duplicates and all-zero entries
\* included), whatever the strategy and however the entries fall into
\* the buckets.
C33_Permutation ==
    ReadToEnd =>
        \A e \in SortEntries(sm.entry_size_) :
            Occurrences(emitted, e) = Occurrences(added, e)

RECURSIVE PrefixBytes(_, _)
\* the bytes added to the first n buckets
PrefixBytes(m, n) ==
    IF n = 0 THEN 0 ELSE PrefixBytes(m, n - 1) + m.buckets_[n].write_pointer

\* no bucket that holds entries is left to sort
AllSorted(m) ==
    \A i \in 1 .. Len(m.buckets_) :
        i > m.next_bucket_to_sort => m.buckets_[i].write_pointer = 0

\* the bucket files after the flush: emptied for the buckets sorted, whole
\* for the others
SortedOnce(m) ==
    \A i \in 1 .. Len(m.buckets_) :
        Len(m.buckets_[i].file) * m.entry_size_ =
            IF i <= m.next_bucket_to_sort THEN 0
            ELSE m.buckets_[i].write_pointer

---------------------------------------------------------------------------
(* Phase 2, back-propagation.  A table is a sequence of entries; the entry *)
(* at position p of a table is element p + 1 of the sequence.  An entry of *)
(* table 1 holds x in pos; an entry of a later table points at positions   *)
(* pos and pos + offset of the table before it.  key is the place of the   *)
(* entry in its table, org the place phase 1 gave it (never read by either *)
(* variant).                                                               *)

MaxTableLen == 3

\* the tables followed: the first, one in the middle and the last
NumTables == Len(<<"first", "middle", "last">>)

\* the last table is followed with one entry and with two
LastTableLens == {1, 2}

PointersInto(n) ==
    {r \in [pos : 0 .. n - 1, offset : 1 .. n - 1] : r.pos + r.offset <= n - 1}

SeqsOver(S, lens) == UNION {[1 .. n -> S] : n \in lens}

\* the table phase 1 wrote for the pointers ptrs
AsTable(ptrs) ==
    [i \in 1 .. Len(ptrs) |->
        [key |-> i - 1, pos |-> ptrs[i].pos, offset |-> ptrs[i].offset,
         org |-> i - 1]]

FirstTable(n) ==
    [i \in 1 .. n |-> [key |-> i - 1, pos |-> i - 1, offset |-> 0, org |-> i - 1]]

\* only the left position of an entry is followed
PointedLeftOnly(e) == {e.pos}

\* the positions of the table before it an entry points at
Pointed(e) == {e.pos, e.pos + e.offset}

Count(filter) == Cardinality({i \in 1 .. Len(filter) : filter[i]})

(* The bitfield variant. *)

\* used_{t-1}: the positions the surviving entries of table t point at
MarkUsed(table, used_t, left_len) ==
    [p \in 1 .. left_len |->
        \E i \in 1 .. Len(table) : used_t[i] /\ (p - 1) \in Pointed(table[i])]

\* bitfield::get; the bits after the last one are clear
FilterGet(filter, idx) == idx + 1 <= Len(filter) /\ filter[idx + 1]

\* filter_.get(last_idx_) is evaluated: queried keeps the highest index the
\* filter was asked for (-1 before the first query)
Queried(d) == [d EXCEPT !.queried = Max(@, d.last_idx_)]

RECURSIVE SkipCleared(_)
\* while (!filter_.get(last_idx_)).  Phase 3 reads only entries the filter
\* keeps, so a set bit lies ahead and the loop ends before the filter does;
\* a query at or beyond the end of the filter is recorded and ends the loop.
SkipCleared(d) ==
    IF ~FilterGet(d.filter_, d.last_idx_) /\ d.last_idx_ < Len(d.filter_)
    THEN SkipCleared([Queried(d) EXCEPT !.last_physical_ = @ + d.entry_size_,
                                        !.last_idx_ = @ + 1])
    ELSE Queried(d)

\* a constructor that leaves the cursor on entry 0, kept or not
NewFilteredDiskNoSkip(filter, entry_size) ==
    [filter_ |-> filter, entry_size_ |-> entry_size,
     last_logical_ |-> 0, last_physical_ |-> 0, last_idx_ |-> 0,
     queried |-> 0]

\* FilteredDisk::FilteredDisk
NewFilteredDisk(filter, entry_size) ==
    SkipCleared([filter_ |-> filter, entry_size_ |-> entry_size,
                 last_logical_ |-> 0, last_physical_ |-> 0, last_idx_ |-> 0,
                 queried |-> -1])

RECURSIVE AdvanceCountingAll(_, _)
\* a loop that takes a logical step at every entry, kept or not
AdvanceCountingAll(d, begin) ==
    IF begin > d.last_logical_ /\ d.last_idx_ < Len(d.filter_)
    THEN AdvanceCountingAll([Queried(d) EXCEPT
                               !.last_logical_ = @ + d.entry_size_,
                               !.last_physical_ = @ + d.entry_size_,
                               !.last_idx_ = @ + 1],
                            begin)
    ELSE d

RECURSIVE Advance(_, _)
\* while (begin > last_logical_); a query at or beyond the end of the
\* filter is recorded and ends the loop
Advance(d, begin) ==
    IF begin > d.last_logical_
    THEN IF d.last_idx_ < Len(d.filter_)
         THEN Advance([Queried(d) EXCEPT
                         !.last_logical_ =
                             IF FilterGet(d.filter_, d.last_idx_)
                             THEN @ + d.entry_size_ ELSE @,
                         !.last_physical_ = @ + d.entry_size_,
                         !.last_idx_ = @ + 1],
                      begin)
         ELSE Queried(d)
    ELSE d

\* a read that stops on whatever entry its count of set bits ends on
FilteredDiskReadNoSkip(d, begin) ==
    IF begin > d.last_logical_
    THEN Advance([d EXCEPT !.last_logical_ = @ + d.entry_size_,
                           !.last_physical_ = @ + d.entry_size_,
                           !.last_idx_ = @ + 1],
                 begin)
    ELSE d

\* FilteredDisk::Read: the disk afterwards; the read is at last_physical_
FilteredDiskRead(d, begin) ==
    IF begin > d.last_logical_
    THEN SkipCleared(Advance([d EXCEPT !.last_logical_ = @ + d.entry_size_,
                                       !.last_physical_ = @ + d.entry_size_,
                                       !.last_idx_ = @ + 1],
                             begin))
    ELSE d

\* bitfield_index::lookup: the set bits before position p
Rank(filter, p) == Cardinality({i \in 1 .. p : filter[i]})

RECURSIVE ReadThrough(_, _, _, _, _)
\* the entries j .. n - 1 of a table as phase 3 reads them through its
\* filter, renumbered by the filter of the table before it
ReadThrough(table, d, left_filter, j, n) ==
    IF j >= n THEN <<>>
    ELSE LET r == FilteredDiskRead(d, j * d.entry_size_)
             e == table[(r.last_physical_ \div r.entry_size_) + 1]
             np == Rank(left_filter, e.pos)
         IN  <<[key |-> j,
                pos |-> IF left_filter = <<>> THEN e.pos ELSE np,
                offset |-> IF left_filter = <<>> THEN 0
                           ELSE Rank(left_filter, e.pos + e.offset) - np]>>
             \o ReadThrough(table, r, left_filter, j + 1, n)

\* the table t phase 3 sees in the bitfield variant
FilteredTable(tbls, filters, t) ==
    ReadThrough(tbls[t],
                NewFilteredDisk(filters[t],
                                GetMaxEntrySize(kMinPlotSize, t, FALSE)),
                IF t = 1 THEN <<>> ELSE filters[t - 1],
                0, Count(filters[t]))

(* The rewrite variant. *)

RECURSIVE InsertBy(_, _, _)
\* e goes into the run s, sorted by field f, behind its equals
InsertBy(s, e, f) ==
    IF s = <<>> THEN <<e>>
    ELSE IF s[Len(s)][f] > e[f]
         THEN Append(InsertBy(SubSeq(s, 1, Len(s) - 1), e, f), s[Len(s)])
         ELSE Append(s, e)

RECURSIVE SortBy(_, _, _)
\* the first n entries of a table sorted by field f
SortBy(table, n, f) ==
    IF n = 0 THEN <<>> ELSE InsertBy(SortBy(table, n - 1, f), table[n], f)

RECURSIVE CoScan(_, _, _, _)
\* the left table from position i on against the right table sorted by
\* pos: an entry nothing points at is dropped, the next kept one gets the
\* next id.  The result is the kept entries and the new id of every
\* position (-1 for a dropped one).
CoScan(left, right, i, counter) ==
    IF i >= Len(left) THEN [kept |-> <<>>, new_id |-> <<>>]
    ELSE LET marked == \E j \in 1 .. Len(right) : i \in Pointed(right[j])
             rest == CoScan(left, right, i + 1,
                            IF marked THEN counter + 1 ELSE counter)
         IN  IF marked
             THEN [kept |-> <<[left[i + 1] EXCEPT !.key = counter]>>
                               \o rest.kept,
                   new_id |-> <<counter>> \o rest.new_id]
             ELSE [kept |-> rest.kept, new_id |-> <<-1>> \o rest.new_id]

\* one round of the rewrite variant on tables t - 1 (left) and t (right)
Rewrite(left, right) ==
    LET by_pos == SortBy(right, Len(right), "pos")
        scan == CoScan(left, by_pos, 0, 0)
        moved == [j \in 1 .. Len(by_pos) |->
                    [by_pos[j] EXCEPT
                        !.pos = scan.new_id[by_pos[j].pos + 1],
                        !.offset =
                            scan.new_id[by_pos[j].pos + by_pos[j].offset + 1]
                               - scan.new_id[by_pos[j].pos + 1]]]
    IN  [left |-> scan.kept, right |-> SortBy(moved, Len(moved), "key")]

\* what phase 3 is handed of a rewritten table
Logical(table) ==
    [i \in 1 .. Len(table) |->
        [key |-> table[i].key, pos |-> table[i].pos,
         offset |-> table[i].offset]]

NoTables == [t \in 1 .. NumTables |-> <<>>]

Phase2Idle ==
    /\ p2c = "idle"
    /\ p1_tables = NoTables
    /\ p2_t = 0
    /\ used = NoTables
    /\ bf_tables = NoTables
    /\ bf_sizes = [t \in 1 .. NumTables |-> 0]
    /\ rw_tables = NoTables
    /\ rw_sizes = [t \in 1 .. NumTables |-> 0]

\* phase 1 has written its tables; neither variant has started
Phase2Init ==
    /\ p2c = "mark"
    /\ \E n1 \in 2 .. MaxTableLen :
         \E t2 \in SeqsOver(PointersInto(n1), 2 .. MaxTableLen) :
           \E t3 \in SeqsOver(PointersInto(Len(t2)), LastTableLens) :
              p1_tables = <<FirstTable(n1), AsTable(t2), AsTable(t3)>>
    /\ p2_t = NumTables
    /\ used = [t \in 1 .. NumTables |->
                 [i \in 1 .. Len(p1_tables[t]) |-> t = NumTables]]
    /\ bf_tables = NoTables
    /\ bf_sizes = [t \in 1 .. NumTables |-> 0]
    /\ rw_tables = p1_tables
    /\ rw_sizes = [t \in 1 .. NumTables |-> Len(p1_tables[t])]

\* bitfield variant, table p2_t: the entries it points at are marked
MarkTable ==
    /\ p2c = "mark"
    /\ p2_t >= 2
    /\ used' = [used EXCEPT ![p2_t - 1] =
                   MarkUsed(p1_tables[p2_t], used[p2_t],
                            Len(p1_tables[p2_t - 1]))]
    /\ p2_t' = p2_t - 1
    /\ UNCHANGED <<p2c, p1_tables, bf_tables, bf_sizes, rw_tables, rw_sizes>>
    /\ UNCHANGED notPhase2

\* bitfield variant: phase 3 reads every table through its filter
ReadFiltered ==
    /\ p2c = "mark"
    /\ p2_t = 1
    /\ bf_tables' = [t \in 1 .. NumTables |-> FilteredTable(p1_tables, used, t)]
    /\ bf_sizes' = [t \in 1 .. NumTables |-> Count(used[t])]
    /\ p2c' = "rewrite"
    /\ p2_t' = NumTables
    /\ UNCHANGED <<p1_tables, used, rw_tables, rw_sizes>>
    /\ UNCHANGED notPhase2

\* rewrite variant, table p2_t: table p2_t - 1 loses its dead entries and
\* table p2_t is renumbered
RewriteTable ==
    /\ p2c = "rewrite"
    /\ p2_t >= 2
    /\ LET r == Rewrite(rw_tables[p2_t - 1], rw_tables[p2_t])
       IN  /\ rw_tables' = [rw_tables EXCEPT ![p2_t - 1] = r.left,
                                             ![p2_t] = r.right]
           /\ rw_sizes' = [rw_sizes EXCEPT ![p2_t - 1] = Len(r.left)]
    /\ p2_t' = p2_t - 1
    /\ p2c' = IF p2_t = 2 THEN "done" ELSE "rewrite"
    /\ UNCHANGED <<p1_tables, used, bf_tables, bf_sizes>>
    /\ UNCHANGED notPhase2

Phase2Next ==
    \/ MarkTable
    \/ ReadFiltered
    \/ RewriteTable

---------------------------------------------------------------------------
(* Properties of phase 2.                                                  *)

\* the places phase 1 gave the entries that survive in table t
SurvivorsBitfield(t) == {i \in 0 .. Len(used[t]) - 1 : used[t][i + 1]}

SurvivorsRewrite(t) == {rw_tables[t][i].org : i \in 1 .. Len(rw_tables[t])}

\* what the entry phase 1 put at place i of table t points at
PointedByOrg(t, i) == {p1_tables[t][i + 1].pos,
                       p1_tables[t][i + 1].pos + p1_tables[t][i + 1].offset}

\* the renumbered pointers of a table stay inside the table before it
PointersInside(tbls, sizes, t) ==
    \A i \in 1 .. Len(tbls[t]) :
        /\ tbls[t][i].pos >= 0
        /\ tbls[t][i].offset >= 1
        /\ tbls[t][i].pos + tbls[t][i].offset < sizes[t - 1]

\* C2: after phase 2, in either variant, both entries of table t-1 that a
\* surviving entry of table t points at survive, and the renumbered
\* pointers handed to phase 3 stay inside the pruned table t-1.
C2_SurvivorsPointAtSurvivors ==
    p2c = "done" =>
        \A t \in 2 .. NumTables :
            /\ \A i \in SurvivorsBitfield(t) :
                  PointedByOrg(t, i) \subseteq SurvivorsBitfield(t - 1)
            /\ \A i \in SurvivorsRewrite(t) :
                  PointedByOrg(t, i) \subseteq SurvivorsRewrite(t - 1)
            /\ PointersInside(bf_tables, bf_sizes, t)
            /\ PointersInside([u \in 1 .. NumTables |-> Logical(rw_tables[u])],
                              rw_sizes, t)

\* a table of the middle lost an entry and the first table lost one
C2_Witness ==
    /\ p2c = "done"
    /\ Len(rw_tables[2]) < Len(p1_tables[2])
    /\ Len(rw_tables[1]) < Len(p1_tables[1])
    /\ Count(used[2]) < Len(p1_tables[2])
    /\ Len(rw_tables[3]) = 2

---------------------------------------------------------------------------
(* DiskPlotter::WriteHeader (plotter_disk.hpp 399..448).                   *)

kIdLen == 32

\* "v1.0"
kFormatDescription == <<118, 49, 46, 48>>

\* "Proof of Space Plot"
header_text == <<80, 114, 111, 111, 102, 32, 111, 102, 32, 83, 112, 97, 99, 101, 32, 80, 108, 111, 116>>

\* the other byte order, as Util::IntToTwoBytesLE writes it
IntToTwoBytesLE(input) == <<(input % 65536) % 256, (input % 65536) \div 256>>

\* Util::IntToTwoBytes: the uint16_t argument, most significant byte first
IntToTwoBytes(input) == <<(input % 65536) \div 256, (input % 65536) % 256>>

TwoBytesToInt(bytes) == bytes[1] * 256 + bytes[2]

\* the file after FileDisk::Write(begin, bytes): a write at the end of
\* the file lengthens it, a gap reads as zeros
FileWrite(content, begin, bytes) ==
    IF begin = Len(content) THEN content \o bytes
    ELSE [i \in 1..Max(Len(content), begin + Len(bytes)) |->
            IF i > begin /\ i <= begin + Len(bytes) THEN bytes[i - begin]
            ELSE IF i <= Len(content) THEN content[i] ELSE 0]

\* the plots a header is written for
HeaderKValues == {18, 32, 50}
IdValues == {[i \in 1..kIdLen |-> i], [i \in 1..kIdLen |-> 255 - i]}
MemoValues == {<<>>, <<7>>, <<1, 2, 3>>, [i \in 1..300 |-> i % 251]}

\* a memo whose length does not fit a uint16_t (memo_len is a uint32_t)
LongMemo == [i \in 1 .. 65537 |-> i % 251]

HeaderInputs ==
    [k : HeaderKValues, id : IdValues, memo : MemoValues, num_threads : {1, 2},
     num_buckets : {32, 64}, nobitfield : BOOLEAN]
    \cup [k : {32}, id : IdValues, memo : {LongMemo}, num_threads : {1},
          num_buckets : {32}, nobitfield : {FALSE}]

NoHeader ==
    [k |-> 0, id |-> <<>>, memo |-> <<>>, num_threads |-> 0, num_buckets |-> 0,
     nobitfield |-> FALSE]

HeaderIdle ==
    /\ hpc = "idle"
    /\ hdr_in = NoHeader
    /\ plot_Disk = <<>>
    /\ hdr_writes = <<>>
    /\ write_pos = 0
    /\ bytes_written = 0

\* tmp2_disk was opened with "w+b" and has not been written to
HeaderInit ==
    /\ hpc = "header_text"
    /\ hdr_in \in HeaderInputs
    /\ plot_Disk = <<>>
    /\ hdr_writes = <<>>
    /\ write_pos = 0
    /\ bytes_written = 0

\* plot_Disk.Write(write_pos, bytes, length); write_pos += length
HeaderWrite(at, next, bytes) ==
    /\ hpc = at
    /\ plot_Disk' = FileWrite(plot_Disk, write_pos, bytes)
    /\ hdr_writes' = Append(hdr_writes, <<write_pos, Len(bytes)>>)
    /\ write_pos' = write_pos + Len(bytes)
    /\ hpc' = next
    /\ UNCHANGED <<hdr_in, bytes_written>>
    /\ UNCHANGED notHeader

\* lines 414..417
WriteHeaderText == HeaderWrite("header_text", "id", header_text)

\* lines 418..419
WriteId == HeaderWrite("id", "k", SubSeq(hdr_in.id, 1, kIdLen))

\* lines 421..424
WriteK == HeaderWrite("k", "fmt_len", <<hdr_in.k>>)

\* lines 426..429
WriteFormatLen ==
    HeaderWrite("fmt_len", "fmt", IntToTwoBytes(Len(kFormatDescription)))

\* lines 430..431
WriteFormat == HeaderWrite("fmt", "memo_len", kFormatDescription)

\* lines 433..435
WriteMemoLen ==
    HeaderWrite("memo_len", "memo", IntToTwoBytes(Len(hdr_in.memo)))

\* lines 436..437
WriteMemo == HeaderWrite("memo", "pointers", hdr_in.memo)

\* lines 439..442
WritePointers == HeaderWrite("pointers", "return", Zeros(10 * 8))

\* lines 444..447
ReturnHeaderSize ==
    /\ hpc = "return"
    /\ bytes_written' = Len(header_text) + kIdLen + 1 + 2
                          + Len(kFormatDescription) + 2 + Len(hdr_in.memo)
                          + 10 * 8
    /\ hpc' = "returned"
    /\ UNCHANGED <<hdr_in, plot_Disk, hdr_writes, write_pos>>
    /\ UNCHANGED notHeader

HeaderNext ==
    \/ WriteHeaderText
    \/ WriteId
    \/ WriteK
    \/ WriteFormatLen
    \/ WriteFormat
    \/ WriteMemoLen
    \/ WriteMemo
    \/ WritePointers
    \/ ReturnHeaderSize

\* the bytes of the file from offset begin, length of them
FileBytes(begin, length) == SubSeq(plot_Disk, begin + 1, begin + length)

fmt_desc_len == Len(kFormatDescription)

\* the offset of the memo length field
MemoLenOffset == 54 + fmt_desc_len

\* the first n writes lie end to end from offset 0
Contiguous(writes) ==
    \A i \in 1..Len(writes) :
        writes[i][1] = (IF i = 1 THEN 0 ELSE writes[i - 1][1] + writes[i - 1][2])

C37_MemoLenField ==
    hpc = "returned" =>
        LET stored == TwoBytesToInt(FileBytes(MemoLenOffset, 2))
        IN  /\ stored = Len(hdr_in.memo)
            /\ FileBytes(MemoLenOffset + 2 + stored, 80) = Zeros(80)

---------------------------------------------------------------------------
(* FileDisk (disk.cpp 75..204): Open, Read, Write, Close.                  *)

writeFlag == "writeFlag"
retryOpenFlag == "retryOpenFlag"

\* offsets and lengths of the calls the model makes
FdBegins == {0, 1, 2}
FdLengths == {1, 2}

\* failed attempts counted
FdMaxFails == 2

\* the bytes a Write(begin, .., length) is handed
FdData(begin, length) == [i \in 1..length |-> 100 + begin + i]

\* the sizes Truncate is called with
FdNewSizes == {1}

\* after_truncate: the call made before this one was Truncate
NoFdCall == [op |-> "none", begin |-> 0, length |-> 0, flags |-> {}, after_truncate |-> FALSE]

NoTry == [what |-> "none", start |-> 0, amt |-> 0]

\* the members of a FileDisk whose f_ is null
ClosedDisk ==
    [f_ |-> "null", bReading |-> TRUE, readPos |-> 0, writePos |-> 0,
     writeMax |-> 0]

FdIdle ==
    /\ fd_pc = "idle"
    /\ disk = ClosedDisk
    /\ fd_file = <<>>
    /\ fpos = 0
    /\ fd_call = NoFdCall
    /\ fd_try = NoTry
    /\ fd_fails = 0
    /\ fd_err = "none"
    /\ memcache = <<>>

\* lines 75..79: the constructor has set filename_ and calls Open(writeFlag);
\* the file may hold bytes of an earlier run
FdInit ==
    /\ fd_pc = "open"
    /\ disk = ClosedDisk
    /\ fd_file \in {<<>>, <<1, 2, 3>>}
    /\ fpos = 0
    /\ fd_call = [op |-> "FileDisk", begin |-> 0, length |-> 0,
                  flags |-> {writeFlag}, after_truncate |-> FALSE]
    /\ fd_try = NoTry
    /\ fd_fails = 0
    /\ fd_err = "none"
    /\ memcache = <<>>

CountFail(n) == IF n < FdMaxFails THEN n + 1 ELSE n

\* lines 127..129: Read is entered and calls Open(retryOpenFlag)
FdRead(begin, length) ==
    /\ fd_pc = "ready"
    /\ fd_call' = [op |-> "Read", begin |-> begin, length |-> length,
                   flags |-> {retryOpenFlag}, after_truncate |-> fd_call.op = "Truncate"]
    /\ fd_pc' = "open"
    /\ fd_try' = NoTry
    /\ fd_fails' = 0
    /\ UNCHANGED <<disk, fd_file, fpos, fd_err, memcache>>
    /\ UNCHANGED notFd

\* lines 157..159: Write is entered and calls Open(writeFlag | retryOpenFlag)
FdWrite(begin, length) ==
    /\ fd_pc = "ready"
    /\ fd_call' = [op |-> "Write", begin |-> begin, length |-> length,
                   flags |-> {writeFlag, retryOpenFlag}, after_truncate |-> fd_call.op = "Truncate"]
    /\ fd_pc' = "open"
    /\ fd_try' = NoTry
    /\ fd_fails' = 0
    /\ UNCHANGED <<disk, fd_file, fpos, fd_err, memcache>>
    /\ UNCHANGED notFd

\* lines 113..120
Closed(d) ==
    IF d.f_ = "null" THEN d
    ELSE [d EXCEPT !.f_ = "null", !.readPos = 0, !.writePos = 0]

FdClose ==
    /\ fd_pc = "ready"
    /\ disk' = Closed(disk)
    /\ fd_call' = [op |-> "Close", begin |-> 0, length |-> 0, flags |-> {},
                   after_truncate |-> fd_call.op = "Truncate"]
    /\ fd_try' = NoTry
    /\ fd_fails' = 0
    /\ UNCHANGED <<fd_pc, fd_file, fpos, fd_err, memcache>>
    /\ UNCHANGED notFd

\* fs::resize_file: the file is cut, or grows by zero bytes
ResizeFile(f, new_size) ==
    [i \in 1 .. new_size |-> IF i <= Len(f) THEN f[i] ELSE 0]

\* lines 200..204: Close, then fs::resize_file
FdTruncate(new_size) ==
    /\ fd_pc = "ready"
    /\ disk' = Closed(disk)
    /\ fd_file' = ResizeFile(fd_file, new_size)
    /\ fd_call' = [op |-> "Truncate", begin |-> 0, length |-> new_size,
                   flags |-> {}, after_truncate |-> fd_call.op = "Truncate"]
    /\ fd_try' = NoTry
    /\ fd_fails' = 0
    /\ UNCHANGED <<fd_pc, fpos, fd_err, memcache>>
    /\ UNCHANGED notFd

\* lines 106..111: a FileDisk is move-constructed from disk and used in its
\* place; filename_ and f_ are taken over, the other members are those of a
\* new object (part_001 81..84)
FdMove ==
    /\ fd_pc = "ready"
    /\ disk' = [ClosedDisk EXCEPT !.f_ = disk.f_]
    /\ fd_call' = [op |-> "FileDisk(FileDisk &&)", begin |-> 0, length |-> 0,
                   flags |-> {}, after_truncate |-> fd_call.op = "Truncate"]
    /\ fd_try' = NoTry
    /\ fd_fails' = 0
    /\ UNCHANGED <<fd_pc, fd_file, fpos, fd_err, memcache>>
    /\ UNCHANGED notFd

\* where the caller of Open goes on
AfterOpen(op) == IF op = "FileDisk" THEN "ready" ELSE "loop"

\* an Open that tries fopen whether or not f_ is set
AlreadyOpenNever(f) == FALSE

\* line 84: if (f_) return
AlreadyOpen(f) == f # "null"

\* lines 81..104: Open returns at once, or makes one fopen; "w+b" empties
\* the file, a null result is retried or raises
FdOpen(ok) ==
    /\ fd_pc = "open"
    /\ IF AlreadyOpen(disk.f_)
       THEN /\ fd_pc' = AfterOpen(fd_call.op)
            /\ UNCHANGED <<disk, fd_file, fpos, fd_try, fd_fails, fd_err>>
       ELSE /\ fd_try' = [what |-> "fopen", start |-> 0,
                          amt |-> IF ok THEN 1 ELSE 0]
            /\ IF ok
               THEN /\ disk' = [disk EXCEPT !.f_ = "open"]
                    /\ fd_file' = IF writeFlag \in fd_call.flags THEN <<>> ELSE fd_file
                    /\ fpos' = 0
                    /\ fd_pc' = AfterOpen(fd_call.op)
                    /\ UNCHANGED <<fd_fails, fd_err>>
               ELSE /\ fd_fails' = CountFail(fd_fails)
                    /\ IF retryOpenFlag \in fd_call.flags
                       THEN fd_pc' = "open" /\ UNCHANGED fd_err
                       ELSE fd_pc' = "thrown" /\ fd_err' = "InvalidValue"
                    /\ UNCHANGED <<disk, fd_file, fpos>>
    /\ UNCHANGED <<fd_call, memcache>>
    /\ UNCHANGED notFd

\* a Read that relies on the position the stream is at
NeedSeekNever(bReading, begin, pos) == FALSE

\* line 136
NeedSeekRead(bReading, begin, pos) == ~bReading \/ begin # pos

\* line 166
NeedSeekWrite(bReading, begin, pos) == bReading \/ begin # pos

\* lines 135..154: one turn of the loop; fread delivers amt bytes, as many
\* as are asked for or fewer, and no more than the file holds
FdReadAttempt(amt) ==
    /\ fd_pc = "loop" /\ fd_call.op = "Read"
    /\ LET begin == fd_call.begin
           start == IF NeedSeekRead(disk.bReading, begin, disk.readPos)
                    THEN begin ELSE fpos
       IN  /\ amt <= Max(0, Len(fd_file) - start)
           /\ memcache' = SubSeq(fd_file, start + 1, start + amt)
           /\ fpos' = start + amt
           /\ disk' = [disk EXCEPT !.bReading = TRUE, !.readPos = begin + amt]
           /\ fd_try' = [what |-> "fread", start |-> start, amt |-> amt]
    /\ IF amt # fd_call.length
       THEN fd_fails' = CountFail(fd_fails) /\ fd_pc' = "loop"
       ELSE fd_pc' = "ready" /\ UNCHANGED fd_fails
    /\ UNCHANGED <<fd_file, fd_call, fd_err>>
    /\ UNCHANGED notFd

\* lines 165..187: one turn of the loop; fwrite takes amt bytes
FdWriteAttempt(amt) ==
    /\ fd_pc = "loop" /\ fd_call.op = "Write"
    /\ LET begin == fd_call.begin
           start == IF NeedSeekWrite(disk.bReading, begin, disk.writePos)
                    THEN begin ELSE fpos
           bytes == FdData(begin, fd_call.length)
       IN  /\ fd_file' = IF amt = 0 THEN fd_file
                      ELSE FileWrite(fd_file, start, SubSeq(bytes, 1, amt))
           /\ fpos' = start + amt
           /\ disk' = [disk EXCEPT !.bReading = FALSE, !.writePos = begin + amt,
                                   !.writeMax = Max(disk.writeMax, begin + amt)]
           /\ fd_try' = [what |-> "fwrite", start |-> start, amt |-> amt]
    /\ IF amt # fd_call.length
       THEN fd_fails' = CountFail(fd_fails) /\ fd_pc' = "loop"
       ELSE fd_pc' = "ready" /\ UNCHANGED fd_fails
    /\ UNCHANGED <<fd_call, fd_err, memcache>>
    /\ UNCHANGED notFd

FdNext ==
    \/ \E begin \in FdBegins, length \in FdLengths : FdRead(begin, length)
    \/ \E begin \in FdBegins, length \in FdLengths : FdWrite(begin, length)
    \/ FdClose
    \/ \E new_size \in FdNewSizes : FdTruncate(new_size)
    \/ \E ok \in BOOLEAN : FdOpen(ok)
    \/ \E amt \in 0..fd_call.length : FdReadAttempt(amt)
    \/ \E amt \in 0..fd_call.length : FdWriteAttempt(amt)

\* the calls on a FileDisk, move construction among them
FdMoveNext ==
    \/ FdNext
    \/ FdMove

\* an attempt that transfers everything asked for
FdTransferSucceeds ==
    \/ FdReadAttempt(fd_call.length)
    \/ FdWriteAttempt(fd_call.length)

InTransfer == fd_pc = "loop"

\* the file holds the bytes the Read under way asks for
Readable == fd_call.begin + fd_call.length <= Len(fd_file)

C15_Open ==
    /\ [][fd_pc = "open" /\ disk.f_ # "null" =>
            /\ <<disk, fd_file, fpos, fd_try, fd_fails, fd_err>>' =
                  <<disk, fd_file, fpos, fd_try, fd_fails, fd_err>>
            /\ fd_pc' = AfterOpen(fd_call.op)]_vars
    /\ [][fd_pc = "open" /\ disk.f_ = "null" =>
            /\ fd_try'.what = "fopen"
            /\ fd_try'.amt = 1 =>
                  disk'.f_ = "open" /\ fd_pc' = AfterOpen(fd_call.op)
            /\ fd_try'.amt = 0 /\ retryOpenFlag \notin fd_call.flags =>
                  /\ fd_pc' = "thrown" /\ fd_err' = "InvalidValue"
                  /\ disk'.f_ = "null"
            /\ fd_try'.amt = 0 /\ retryOpenFlag \in fd_call.flags =>
                  /\ fd_pc' = "open" /\ fd_err' = "none"
                  /\ disk'.f_ = "null"]_vars
    /\ [](fd_pc = "thrown" =>
            fd_call.op = "FileDisk" /\ disk.f_ = "null" /\ fd_err = "InvalidValue")
    /\ [](fd_pc = "loop" => disk.f_ = "open" /\ fd_err = "none")
    /\ [](fd_pc = "open" =>
            (fd_call.op = "FileDisk" <=> retryOpenFlag \notin fd_call.flags))

\* a Read on a closed FileDisk is in its loop after fopen failed twice
C15_Witness ==
    /\ fd_pc = "loop" /\ fd_call.op = "Read"
    /\ fd_try = [what |-> "fopen", start |-> 0, amt |-> 1]
    /\ fd_fails >= 2
    /\ disk.f_ = "open"

\* a Read or Write that follows a Truncate is about to open the file again
ReopenAfterTruncate ==
    /\ fd_pc = "open" /\ disk.f_ = "null"
    /\ fd_call.op \in {"Read", "Write"} /\ fd_call.after_truncate

\* C31: after Truncate(new_size) the next Read or Write opens the file
\* again, and the open leaves the first new_size bytes of the file as
\* they are: a following Write changes only the bytes it writes, a
\* following Read sees the retained bytes.
C31_TruncateKeepsBytes ==
    [][ReopenAfterTruncate => fd_file' = fd_file]_vars

---------------------------------------------------------------------------
(* BufferedDisk (disk.cpp 206..324).  write_cache and read_ahead are       *)
(* 1024 * 1024 in the source; the model keeps them small.  A uint64_t of   *)
(* all ones, the -1 the offsets are reset to, is kept as -1.               *)

write_cache == 3
read_ahead == 10

\* sizeof(temp), the static buffer of backward reads (line 244): 128 in the
\* source, kept between the head-room and read_ahead as there
sizeof_temp == 9

\* the bytes SliceInt64FromBytes may read past an entry
kSliceHeadRoom == 7

BdFileSize == 6

\* the calls followed on one BufferedDisk
BdMaxCalls == 4

\* the calls the model makes
BdWriteBegins == {0, 2}
BdWriteLengths == {1, 2, 4}
BdWriteTags == {20, 30}
BdReadBegins == {0, 1, 2}
BdReadLengths == {1, 2, 4}

NoBdCall == [op |-> "none", begin |-> 0, length |-> 0, bytes |-> <<>>]

\* what a Read returns: the buffer pointed into ("abort": a failed
\* assertion has ended the process), the bytes asked for, and room, the
\* bytes of the buffer from the pointer on
NoRet == [from |-> "none", bytes |-> <<>>, room |-> 0]

\* the object as the constructor leaves it (line 206): no buffer allocated
NewBufferedDisk(file_size) ==
    [file_size_ |-> file_size,
     read_buffer_ |-> <<>>, read_alloc |-> FALSE,
     read_buffer_start_ |-> -1, read_buffer_size_ |-> 0,
     write_buffer_ |-> <<>>, write_alloc |-> FALSE,
     write_buffer_start_ |-> -1, write_buffer_size_ |-> 0]

BdIdle ==
    /\ bd = NewBufferedDisk(0)
    /\ bd_file = <<>>
    /\ bd_call = NoBdCall
    /\ bd_ops = <<>>
    /\ bd_ret = NoRet
    /\ temp = <<>>
    /\ bd_calls = 0
    /\ bd_direct = bd_file

BdInit ==
    /\ bd = NewBufferedDisk(BdFileSize)
    /\ bd_file = [i \in 1..BdFileSize |-> 9 + i]
    /\ bd_call = NoBdCall
    /\ bd_ops = <<>>
    /\ bd_ret = NoRet
    /\ temp = <<>>
    /\ bd_calls = 0
    /\ bd_direct = bd_file

\* lines 310..316
NeedReadCache(b) ==
    IF b.read_alloc THEN b
    ELSE [b EXCEPT !.read_alloc = TRUE, !.read_buffer_ = <<>>,
                   !.read_buffer_start_ = -1, !.read_buffer_size_ = 0]

\* lines 318..324
NeedWriteCache(b) ==
    IF b.write_alloc THEN b
    ELSE [b EXCEPT !.write_alloc = TRUE, !.write_buffer_ = <<>>,
                   !.write_buffer_start_ = -1, !.write_buffer_size_ = 0]

WriteOp(begin, bytes) == [op |-> "Write", begin |-> begin, bytes |-> bytes]
ReadOp(begin, length) == [op |-> "Read", begin |-> begin, length |-> length]

\* the file after the calls ops have been made on disk_
RECURSIVE Applied(_, _)
Applied(content, ops) ==
    IF ops = <<>> THEN content
    ELSE Applied(IF Head(ops).op = "Write"
                 THEN FileWrite(content, Head(ops).begin, Head(ops).bytes)
                 ELSE content, Tail(ops))

\* lines 302..308: the object after BufferedDisk::FlushCache and the call it made
BufferedFlushCache(b) ==
    IF b.write_buffer_size_ = 0 THEN [bd |-> b, ops |-> <<>>]
    ELSE [bd |-> [b EXCEPT !.write_buffer_size_ = 0, !.write_buffer_ = <<>>],
          ops |-> <<WriteOp(b.write_buffer_start_, b.write_buffer_)>>]

\* line 260: the write starts where the buffered bytes end; with
\* write_buffer_start_ all ones and nothing buffered the sum is all ones,
\* which no begin of the model is
AtTail(b, begin) ==
    b.write_buffer_start_ # -1
        /\ begin = b.write_buffer_start_ + b.write_buffer_size_

\* lines 257..277: the object after Write and the calls it made on disk_
BufferedWrite(b0, begin, bytes) ==
    LET b == NeedWriteCache(b0)
        length == Len(bytes)
        fits == b.write_buffer_size_ + length <= write_cache
        fl == IF AtTail(b, begin) /\ ~fits THEN BufferedFlushCache(b)
              ELSE [bd |-> b, ops |-> <<>>]
    IN  IF AtTail(b, begin) /\ fits
        THEN [bd |-> [b EXCEPT !.write_buffer_ = b.write_buffer_ \o bytes,
                               !.write_buffer_size_ = b.write_buffer_size_ + length],
              ops |-> <<>>]
        ELSE IF fl.bd.write_buffer_size_ = 0 /\ write_cache >= length
        THEN [bd |-> [fl.bd EXCEPT !.write_buffer_start_ = begin,
                                   !.write_buffer_ = bytes,
                                   !.write_buffer_size_ = length],
              ops |-> fl.ops]
        ELSE [bd |-> fl.bd, ops |-> Append(fl.ops, WriteOp(begin, bytes))]

BdWrite(begin, length, tag) ==
    /\ bd_calls < BdMaxCalls
    /\ bd_ret.from # "abort"
    /\ bd_calls' = bd_calls + 1
    /\ LET bytes == [i \in 1..length |-> tag]
           r == BufferedWrite(bd, begin, bytes)
       IN  /\ bd' = r.bd
           /\ bd_ops' = r.ops
           /\ bd_file' = Applied(bd_file, r.ops)
           /\ bd_call' = [op |-> "Write", begin |-> begin, length |-> length,
                           bytes |-> bytes]
           /\ bd_direct' = FileWrite(bd_direct, begin, bytes)
    /\ UNCHANGED <<bd_ret, temp>>
    /\ UNCHANGED notBd

\* lines 214..216: the read lies inside the window
InWindow(b, begin, length) ==
    /\ b.read_buffer_start_ # -1
    /\ b.read_buffer_start_ <= begin
    /\ b.read_buffer_start_ + b.read_buffer_size_ >= begin + length
    /\ b.read_buffer_start_ + read_ahead >= begin + length + kSliceHeadRoom

\* a test that moves the window for every read outside it
MovesWindowAlways(b, begin) == TRUE

\* line 221
MovesWindow(b, begin) ==
    \/ (b.read_buffer_start_ # -1 /\ begin >= b.read_buffer_start_)
    \/ begin = 0
    \/ b.read_buffer_start_ = -1

\* a backward read that hands out temp as the read before it left it
BdReadBackwardNoRead(b, begin, length) ==
    /\ bd' = b
    /\ bd_ops' = <<>>
    /\ UNCHANGED temp
    /\ bd_ret' = [from |-> "temp", bytes |-> temp, room |-> sizeof_temp]

\* lines 237..254: the read goes to the file and into temp
BdReadBackward(b, begin, length) ==
    /\ bd' = b
    /\ bd_ops' = <<ReadOp(begin, length)>>
    /\ temp' = SubSeq(bd_file, begin + 1, begin + length)
    /\ bd_ret' = [from |-> "temp", bytes |-> temp', room |-> sizeof_temp]

\* line 247 where assertions are compiled in and fail: the process ends
BdReadAbort(b) ==
    /\ bd' = b
    /\ bd_ops' = <<>>
    /\ bd_ret' = [from |-> "abort", bytes |-> <<>>, room |-> 0]
    /\ UNCHANGED temp

\* lines 208..255.  A read-ahead buffer holds read_ahead bytes, so a
\* pointer off bytes into it has read_ahead - off bytes of room.  No length
\* of the model goes beyond temp.
BdRead(begin, length) ==
    /\ bd_calls < BdMaxCalls
    /\ bd_ret.from # "abort"
    /\ bd_calls' = bd_calls + 1
    /\ begin + length <= bd.file_size_
    /\ length < read_ahead
    /\ LET b == NeedReadCache(bd)
           off == begin - b.read_buffer_start_
       IN  IF InWindow(b, begin, length)
           THEN /\ bd' = b
                /\ bd_ops' = <<>>
                /\ bd_ret' = [from |-> "read_buffer_",
                              bytes |-> SubSeq(b.read_buffer_, off + 1, off + length),
                              room |-> read_ahead - off]
                /\ UNCHANGED temp
           ELSE IF MovesWindow(b, begin)
           THEN LET amount_to_read == Min(b.file_size_ - begin, read_ahead)
                    got == SubSeq(bd_file, begin + 1, begin + amount_to_read)
                IN  /\ bd' = [b EXCEPT !.read_buffer_start_ = begin,
                                       !.read_buffer_ = got,
                                       !.read_buffer_size_ = amount_to_read]
                    /\ bd_ops' = <<ReadOp(begin, amount_to_read)>>
                    /\ bd_ret' = [from |-> "read_buffer_",
                                  bytes |-> SubSeq(got, 1, length),
                                  room |-> read_ahead]
                    /\ UNCHANGED temp
           ELSE IF length <= sizeof_temp - kSliceHeadRoom
           THEN BdReadBackward(b, begin, length)
           ELSE \/ BdReadAbort(b)
                \/ BdReadBackward(b, begin, length)
    /\ bd_call' = [op |-> "Read", begin |-> begin, length |-> length,
                    bytes |-> <<>>]
    /\ UNCHANGED <<bd_file, bd_direct>>
    /\ UNCHANGED notBd

\* lines 292..300
BdFreeMemory ==
    /\ bd_calls < BdMaxCalls
    /\ bd_ret.from # "abort"
    /\ bd_calls' = bd_calls + 1
    /\ LET r == BufferedFlushCache(bd)
       IN  /\ bd' = [r.bd EXCEPT !.read_buffer_ = <<>>, !.read_alloc = FALSE,
                                 !.write_buffer_ = <<>>, !.write_alloc = FALSE,
                                 !.read_buffer_size_ = 0,
                                 !.write_buffer_size_ = 0]
           /\ bd_ops' = r.ops
           /\ bd_file' = Applied(bd_file, r.ops)
    /\ bd_call' = [op |-> "FreeMemory", begin |-> 0, length |-> 0,
                    bytes |-> <<>>]
    /\ UNCHANGED <<bd_ret, temp, bd_direct>>
    /\ UNCHANGED notBd

BdNext ==
    \/ \E begin \in BdWriteBegins, length \in BdWriteLengths :
          \E tag \in BdWriteTags : BdWrite(begin, length, tag)
    \/ \E begin \in BdReadBegins, length \in BdReadLengths :
          BdRead(begin, length)
    \/ BdFreeMemory

\* a call was made in this step
Called(op) == bd_calls' # bd_calls /\ bd_call'.op = op

\* bytes wait in the write buffer
Buffered(b) == b.write_alloc /\ b.write_buffer_size_ > 0

\* the call under way has written the buffered bytes of b to disk_ first
FlushedFirst(b, ops) ==
    ops # <<>> /\ ops[1] = WriteOp(b.write_buffer_start_, b.write_buffer_)

\* C16 as stated: with bytes buffered, a Write that does not start at the
\* tail of the buffered range, or that would take the buffer beyond
\* write_cache bytes, first writes the buffered bytes to the underlying
\* file and then buffers the new bytes or writes them through; a Write
\* that starts at the tail and fits is appended and nothing is written to
\* the file.
C16_FlushBeforeApply ==
    [][Called("Write") /\ Buffered(bd) =>
          LET begin == bd_call'.begin
              bytes == bd_call'.bytes
              at_tail == begin = bd.write_buffer_start_ + bd.write_buffer_size_
              fits == bd.write_buffer_size_ + Len(bytes) <= write_cache
          IN  IF at_tail /\ fits
              THEN /\ bd_ops' = <<>>
                   /\ bd'.write_buffer_ = bd.write_buffer_ \o bytes
                   /\ bd'.write_buffer_start_ = bd.write_buffer_start_
              ELSE /\ FlushedFirst(bd, bd_ops')
                   /\ \/ /\ bd_ops' = <<bd_ops'[1], WriteOp(begin, bytes)>>
                         /\ bd'.write_buffer_size_ = 0
                      \/ /\ Len(bd_ops') = 1
                         /\ bd'.write_buffer_start_ = begin
                         /\ bd'.write_buffer_ = bytes]_vars

\* a read-ahead window has been read and begin lies before its start
Backward(b, begin) ==
    b.read_alloc /\ b.read_buffer_start_ # -1 /\ begin < b.read_buffer_start_

\* the Read of this step went past the cache: one read of the underlying
\* file into temp, the window left as it was
Bypassed ==
    /\ bd_ops' = <<ReadOp(bd_call'.begin, bd_call'.length)>>
    /\ bd_ret'.from = "temp"
    /\ bd_ret'.bytes =
          SubSeq(bd_file, bd_call'.begin + 1, bd_call'.begin + bd_call'.length)
    /\ bd'.read_buffer_start_ = bd.read_buffer_start_
    /\ bd'.read_buffer_size_ = bd.read_buffer_size_
    /\ bd'.read_buffer_ = bd.read_buffer_

\* the Read of this step ended in the failed assertion of line 247
Aborted ==
    /\ bd_ret'.from = "abort"
    /\ bd_ops' = <<>>
    /\ bd'.read_buffer_start_ = bd.read_buffer_start_
    /\ bd'.read_buffer_size_ = bd.read_buffer_size_
    /\ bd'.read_buffer_ = bd.read_buffer_

C27_HeadRoom ==
    (bd_call.op = "Read" /\ bd_ret.from \in {"read_buffer_", "temp"})
        => bd_ret.room >= bd_call.length + kSliceHeadRoom

\* C28: BufferedDisk is write-equivalent to the unbuffered file: after
\* any sequence of Writes followed by a flush (FlushCache, FreeMemory or
\* Truncate) the file holds the bytes it would hold had every Write been
\* applied to it directly, in call order.
C28_WriteEquivalent ==
    bd_call.op = "FreeMemory" => bd_file = bd_direct

\* no Write has been made on the BufferedDisk
NoWrites == bd_direct = [i \in 1 .. BdFileSize |-> 9 + i] /\ bd_file = bd_direct

\* the Read of this step returned the bytes [begin, begin + length) of the
\* file
ReturnedFileBytes ==
    /\ bd_ret'.from \in {"read_buffer_", "temp"}
    /\ bd_ret'.bytes =
          SubSeq(bd_file, bd_call'.begin + 1, bd_call'.begin + bd_call'.length)

\* C29 as stated: on a file that is not written, every Read of a sequence
\* of reads (forward, repeated or backward) with length < read_ahead and
\* begin + length <= file_size_ returns exactly the file bytes
\* [begin, begin + length).
C29_AsStated ==
    [][Called("Read") /\ NoWrites => ReturnedFileBytes]_vars

\* C29: on a file that is not written, every Read with length < read_ahead
\* and begin + length <= file_size_ returns exactly the file bytes
\* [begin, begin + length), whatever window earlier reads left, provided a
\* read that begins before the window at an offset other than 0 asks for
\* at most sizeof(temp) - 7 bytes; a longer one fails the assertion of
\* line 247 where assertions are compiled in.
C29_ReadsFileBytes ==
    [][Called("Read") /\ NoWrites =>
          IF /\ Backward(bd, bd_call'.begin) /\ bd_call'.begin # 0
             /\ bd_call'.length > sizeof_temp - kSliceHeadRoom
          THEN ReturnedFileBytes \/ Aborted
          ELSE ReturnedFileBytes]_vars

\* a Read inside the window an earlier Read left, served without a call on
\* the file
C29_Witness ==
    /\ NoWrites
    /\ bd_call = [op |-> "Read", begin |-> 1, length |-> 2, bytes |-> <<>>]
    /\ bd_ops = <<>>
    /\ bd_ret.from = "read_buffer_" /\ bd_ret.bytes = <<11, 12>>
    /\ bd.read_buffer_start_ = 0

\* a Read before the window was served from the file
C29_WitnessBackward ==
    /\ NoWrites
    /\ bd_call = [op |-> "Read", begin |-> 1, length |-> 1, bytes |-> <<>>]
    /\ bd_ret.from = "temp" /\ bd_ret.bytes = <<11>>
    /\ bd.read_buffer_start_ = 2

\* C30: for any interleaving of Write and Read on one BufferedDisk, a Read
\* that returns hands out the bytes most recently written to its range
\* through this BufferedDisk, with no FlushCache or FreeMemory in between.
C30_ReadYourWrites ==
    (bd_call.op = "Read" /\ bd_ret.from # "abort") =>
        bd_ret.bytes =
            SubSeq(bd_direct, bd_call.begin + 1, bd_call.begin + bd_call.length)

---------------------------------------------------------------------------
(* FilteredDisk in use (disk.cpp 326..381): forward reads and Write.       *)

\* entries of the table under the FilteredDisk
MaxFilterLen == 5

\* reads followed on one FilteredDisk
MaxFilteredReads == 3

FilteredEntrySizes == {1, 3}

\* the filters with at least one set bit: the constructor needs one
Filters ==
    {f \in UNION {[1..n -> BOOLEAN] : n \in 1..MaxFilterLen} :
        \E i \in 1..Len(f) : f[i]}

NoFiltered ==
    [filter_ |-> <<>>, entry_size_ |-> 0, last_logical_ |-> 0,
     last_physical_ |-> 0, last_idx_ |-> 0, queried |-> -1]

NoFilteredCall == [op |-> "none", begin |-> 0, length |-> 0]

FilteredIdle ==
    /\ fl_pc = "idle"
    /\ filtered = NoFiltered
    /\ fl_call = NoFilteredCall
    /\ fl_under = <<>>
    /\ fl_err = "none"

\* lines 326..338: the constructor has run
FilteredInit ==
    /\ fl_pc = "ready"
    /\ \E f \in Filters, es \in FilteredEntrySizes :
          filtered = NewFilteredDisk(f, es)
    /\ fl_call = NoFilteredCall
    /\ fl_under = <<>>
    /\ fl_err = "none"

\* lines 340..375: Read(begin, length) with begin = i * entry_size_, not
\* behind the last read and inside the filtered table
FilteredRead(i) ==
    /\ fl_pc = "ready"
    /\ Len(fl_under) < MaxFilteredReads
    /\ i < Count(filtered.filter_)
    /\ LET begin == i * filtered.entry_size_
           length == filtered.entry_size_
       IN  /\ begin >= filtered.last_logical_
           /\ filtered' = FilteredDiskRead(filtered, begin)
           /\ fl_under' = Append(fl_under, ReadOp(filtered'.last_physical_, length))
           /\ fl_call' = [op |-> "Read", begin |-> begin, length |-> length]
    /\ fl_err' = "none"
    /\ UNCHANGED fl_pc
    /\ UNCHANGED notFiltered

\* a Write handed on to the underlying disk
FilteredWritePassed(d, under, begin, length) ==
    [filtered |-> d,
     under |-> Append(under, [op |-> "Write", begin |-> begin, length |-> length]),
     err |-> {"none"}]

\* lines 377..381: assert(false) where asserts are compiled in, the throw
\* of std::runtime_error where they are not
FilteredDiskWrite(d, under, begin, length) ==
    [filtered |-> d, under |-> under, err |-> {"assert", "runtime_error"}]

FilteredWrite(begin, length) ==
    /\ fl_pc = "ready"
    /\ LET r == FilteredDiskWrite(filtered, fl_under, begin, length)
       IN  /\ filtered' = r.filtered
           /\ fl_under' = r.under
           /\ fl_err' \in r.err
    /\ fl_call' = [op |-> "Write", begin |-> begin, length |-> length]
    /\ fl_pc' = IF fl_err' = "assert" THEN "dead" ELSE "ready"
    /\ UNCHANGED notFiltered

FilteredNext ==
    \/ \E i \in 0..(MaxFilterLen - 1) : FilteredRead(i)
    \/ \E begin \in {0, 1, 3}, length \in {1, 3} : FilteredWrite(begin, length)

\* the index of the set bit of filter that has i set bits before it
SetBitIndex(filter, i) ==
    CHOOSE p \in 0..(Len(filter) - 1) :
        filter[p + 1] /\ Cardinality({q \in 1..p : filter[q]}) = i

\* C18: every Read of a forward-only sequence, at the logical offset
\* i * entry_size with i below the number of set bits, reads the underlying
\* disk at entry_size * p, p the index of the i-th set bit of the filter
\* (counted from 0), and leaves the cursor on that entry.
C18_FilteredReadOffset ==
    fl_call.op = "Read" =>
        LET es == filtered.entry_size_
            p == SetBitIndex(filtered.filter_, fl_call.begin \div es)
        IN  /\ fl_under[Len(fl_under)] = ReadOp(es * p, fl_call.length)
            /\ filtered.last_idx_ = p
            /\ filtered.last_physical_ = es * p
            /\ filtered.last_logical_ = fl_call.begin

\* the third read of a sequence jumped over a kept entry and two cleared
\* ones
C18_Witness ==
    /\ fl_call = [op |-> "Read", begin |-> 6, length |-> 3]
    /\ filtered.filter_ = <<FALSE, TRUE, TRUE, FALSE, TRUE>>
    /\ fl_under = <<ReadOp(3, 3), ReadOp(3, 3), ReadOp(12, 3)>>

\* C19: a Write on a FilteredDisk fails whatever its arguments and whatever
\* the state: it ends in an error, makes no call on the underlying disk and
\* leaves last_idx_, last_physical_, last_logical_ and the filter as they
\* were.
C19_WriteForbidden ==
    /\ [](fl_call.op = "Write" => fl_err # "none")
    /\ [][fl_call'.op = "Write" =>
            /\ fl_err' \in {"assert", "runtime_error"}
            /\ fl_under' = fl_under
            /\ filtered' = filtered]_vars

\* a Write was refused after the cursor had moved
C19_Witness ==
    /\ fl_call = [op |-> "Write", begin |-> 3, length |-> 3]
    /\ fl_err = "runtime_error"
    /\ filtered.last_idx_ = 4 /\ filtered.last_logical_ = 6
    /\ Len(fl_under) = 2

\* a Read has just been made
FilteredReadStep ==
    fl_call'.op = "Read" /\ Len(fl_under') = Len(fl_under) + 1

\* the kept entries at the filter positions from .. to - 1
KeptBetween(filter, from, to) ==
    Cardinality({q \in from .. (to - 1) : FilterGet(filter, q)})

\* C25 as stated: each Read advances the cursor by one logical step:
\* last_logical_ grows by at most entry_size per call, while last_idx_ and
\* last_physical_ move past every cleared bit in between.
C25_AsStated ==
    [][FilteredReadStep =>
          /\ filtered'.last_logical_ - filtered.last_logical_
                <= filtered.entry_size_
          /\ FilterGet(filtered'.filter_, filtered'.last_idx_)]_vars

\* C25: each Read moves last_logical_ to its begin, by one entry_size for
\* every kept entry the cursor passes: not at all for a repeated begin, by
\* entry_size for the next entry, by more when the reader leaves entries
\* out.  last_idx_ and last_physical_ move by one entry per filter
\* position, past every cleared bit, and come to rest on a set bit.
C25_CursorStep ==
    [][FilteredReadStep =>
          LET es == filtered.entry_size_
          IN  /\ filtered'.last_logical_ = fl_call'.begin
              /\ filtered'.last_logical_ - filtered.last_logical_
                    = es * KeptBetween(filtered.filter_, filtered.last_idx_,
                                       filtered'.last_idx_)
              /\ filtered'.last_physical_ - filtered.last_physical_
                    = es * (filtered'.last_idx_ - filtered.last_idx_)
              /\ FilterGet(filtered'.filter_, filtered'.last_idx_)
              /\ fl_call'.begin <= filtered.last_logical_ + es
                    => filtered'.last_logical_ - filtered.last_logical_ <= es
              /\ filtered'.filter_ = filtered.filter_]_vars

\* a Read of the next entry moved the cursor past two cleared bits
C25_Witness ==
    /\ fl_call = [op |-> "Read", begin |-> 1, length |-> 1]
    /\ filtered.filter_ = <<TRUE, FALSE, FALSE, TRUE>>
    /\ fl_under = <<ReadOp(0, 1), ReadOp(3, 1)>>
    /\ filtered.last_idx_ = 3

---------------------------------------------------------------------------
(* Util::SliceInt64FromBytes in use (util.hpp 181..204).  The caller owns  *)
(* a buffer followed by 7 addressable bytes of any content; the slice lies *)
(* inside the buffer.  The result is kept as a 64-bit word, since the      *)
(* model's integers are narrower than uint64_t.                            *)

SliceLens == {1, 9}

\* the 64-bit values written with IntToEightBytes
SliceValues ==
    {[i \in 1 .. 64 |-> i % 2],
     [i \in 1 .. 64 |-> IF i % 3 = 0 \/ i > 60 THEN 1 ELSE 0]}

SliceTails == {0, 255}

SliceContents ==
    UNION {{[i \in 1 .. n |-> 255],
            [i \in 1 .. n |-> (37 * i + 11) % 256],
            [i \in 1 .. n |-> IF i % 2 = 1 THEN 170 ELSE 85]} : n \in SliceLens}
    \cup {[i \in 1 .. 17 |-> (37 * i + 11) % 256]}
    \cup {IntToEightBytes(v) : v \in SliceValues}

\* the memory SliceInt64FromBytes may read: the buffer and its 7 tail bytes
Memory(bytes, tail) == bytes \o [i \in 1 .. kSliceHeadRoom |-> tail]

NoWord == [i \in 1 .. 64 |-> 0]

SliceIdle ==
    /\ sl_pc = "idle"
    /\ sl_bytes = <<>>
    /\ sl_tail = 0
    /\ sl_start = 0
    /\ sl_num = 1
    /\ sl_out = NoWord

SliceInit ==
    /\ sl_pc = "in"
    /\ sl_bytes \in SliceContents
    /\ sl_tail \in SliceTails
    /\ sl_start \in 0 .. (8 * Len(sl_bytes) - 1)
    /\ sl_num \in 1 .. Min(128, 8 * Len(sl_bytes) - sl_start)
    /\ sl_out = NoWord

SliceCall ==
    /\ sl_pc = "in"
    /\ sl_num <= 64
    /\ sl_out' = SliceWord(Memory(sl_bytes, sl_tail), sl_start, sl_num)
    /\ sl_pc' = "sliced"
    /\ UNCHANGED <<sl_bytes, sl_tail, sl_start, sl_num>>
    /\ UNCHANGED notSlice

SliceFullCall ==
    /\ sl_pc = "in"
    /\ sl_num <= 64
    /\ sl_out' = SliceInt64FromBytesFull(Memory(sl_bytes, sl_tail), sl_start, sl_num)
    /\ sl_pc' = "sliced_full"
    /\ UNCHANGED <<sl_bytes, sl_tail, sl_start, sl_num>>
    /\ UNCHANGED notSlice

Slice128Call ==
    /\ sl_pc = "in"
    /\ sl_out' = SliceInt128FromBytes(Memory(sl_bytes, sl_tail), sl_start, sl_num)
    /\ sl_pc' = "sliced128"
    /\ UNCHANGED <<sl_bytes, sl_tail, sl_start, sl_num>>
    /\ UNCHANGED notSlice

SliceNext ==
    \/ SliceCall
    \/ SliceFullCall
    \/ Slice128Call

---------------------------------------------------------------------------
(* Properties of SliceInt64FromBytes.                                      *)

\* bit j (from 0) of a buffer read big-endian
BufferBit(bytes, j) == ByteBits(bytes[(j \div 8) + 1])[(j % 8) + 1]

\* the 64-bit word of the number whose binary digits are the bits
\* start_bit .. start_bit + num_bits - 1 of the buffer
BitsOfBuffer(bytes, start_bit, num_bits) ==
    [i \in 1 .. 64 |->
        IF i <= 64 - num_bits THEN 0
        ELSE BufferBit(bytes, start_bit + (i - (64 - num_bits) - 1))]

\* the bits of a slice that lie beyond the 8 bytes read
Lost(start_bit, num_bits) == Max(0, (start_bit % 8) + num_bits - 64)

\* a word with its n lowest bits cleared
ClearLow(w, n) == [i \in 1 .. 64 |-> IF i > 64 - n THEN 0 ELSE w[i]]

\* C20 as stated: SliceInt64FromBytes returns exactly the number spelled
\* by the bits start_bit .. start_bit + num_bits - 1 of the buffer, for
\* every start_bit and every num_bits in 1 .. 64.
C20_AsStated ==
    sl_pc = "sliced" => sl_out = BitsOfBuffer(sl_bytes, sl_start, sl_num)

\* C20: SliceInt64FromBytes returns exactly the number spelled by the bits
\* start_bit .. start_bit + num_bits - 1 of the buffer whenever
\* start_bit % 8 + num_bits <= 64; otherwise the slice reaches beyond the
\* 8 bytes read and its start_bit % 8 + num_bits - 64 lowest bits are
\* returned as 0.  The 7 tail bytes have no part in the result.
C20_SliceWithin8Bytes ==
    sl_pc = "sliced" =>
        sl_out = ClearLow(BitsOfBuffer(sl_bytes, sl_start, sl_num),
                          Lost(sl_start, sl_num))

\* a slice that starts inside a byte beyond the first 64 bits, fits the
\* 8 bytes read, and has both a set and a cleared bit
C20_Witness ==
    /\ sl_pc = "sliced"
    /\ sl_start > 64
    /\ sl_start % 8 # 0
    /\ Lost(sl_start, sl_num) = 0
    /\ sl_tail = 255
    /\ \E i, j \in (65 - sl_num) .. 64 : sl_out[i] = 1 /\ sl_out[j] = 0

\* the 128-bit word of the number whose binary digits are the bits
\* start_bit .. start_bit + num_bits - 1 of the buffer
BitsOfBuffer128(bytes, start_bit, num_bits) ==
    [i \in 1 .. 128 |->
        IF i <= 128 - num_bits THEN 0
        ELSE BufferBit(bytes, start_bit + (i - (128 - num_bits) - 1))]

\* the 64-bit word of v mod 2^w
ModPow2(v, w) == [i \in 1 .. 64 |-> IF i <= 64 - w THEN 0 ELSE v[i]]

\* C21: SliceInt64FromBytesFull (1 <= num_bits <= 64) and
\* SliceInt128FromBytes (1 <= num_bits <= 128) return exactly the number
\* spelled by the num_bits bits that begin at start_bit, for every
\* start_bit, slices that span nine bytes included; slicing w bits at bit
\* 64 - w of a buffer written by IntToEightBytes(v) returns v mod 2^w.
C21_FullSlices ==
    /\ sl_pc = "sliced_full" =>
           sl_out = BitsOfBuffer(sl_bytes, sl_start, sl_num)
    /\ sl_pc = "sliced128" =>
           sl_out = BitsOfBuffer128(sl_bytes, sl_start, sl_num)
    /\ \A v \in SliceValues :
           (/\ sl_pc \in {"sliced_full", "sliced128"}
            /\ sl_bytes = IntToEightBytes(v)
            /\ sl_start = 64 - sl_num)
           => SubSeq(sl_out, Len(sl_out) - 63, Len(sl_out)) = ModPow2(v, sl_num)

\* a slice of SliceInt64FromBytesFull that ends in a ninth byte with a set
\* bit inside the slice
C21_Witness ==
    /\ sl_pc = "sliced_full"
    /\ (sl_start % 8) + sl_num > 64
    /\ sl_out[64] = 1
    /\ sl_tail = 0

\* a slice of SliceInt128FromBytes of more than 64 bits whose two halves
\* each span nine bytes
C21_Witness128 ==
    /\ sl_pc = "sliced128"
    /\ sl_num = 128
    /\ sl_start % 8 # 0
    /\ \E i \in 1 .. 64 : sl_out[i] = 1
    /\ sl_out[128] = 1

\* a round trip through IntToEightBytes of fewer than 64 bits
C21_WitnessRoundTrip ==
    /\ sl_pc = "sliced_full"
    /\ sl_bytes \in {IntToEightBytes(v) : v \in SliceValues}
    /\ sl_start = 64 - sl_num
    /\ sl_num = 5
    /\ sl_out[64] = 1

---------------------------------------------------------------------------
(* Two BufferedDisk objects in one process (disk.cpp 206..324).  Each has  *)
(* its own file and buffers; temp (line 244) is a static of Read.          *)

DiskIds == {"a", "b"}

\* lengths that pass the assertion of line 247
TwReadLengths == {1, 2}

NoBorrow == [from |-> "none", off |-> 0, bytes |-> <<>>]

\* lines 208..255: the object after Read, the buffer the pointer returned
\* points into, its offset there, and what was read into temp, if anything
BufferedRead(b0, content, begin, length) ==
    LET b == NeedReadCache(b0)
        amount_to_read == Min(b.file_size_ - begin, read_ahead)
    IN  IF InWindow(b, begin, length)
        THEN [bd |-> b, from |-> "read_buffer_",
              off |-> begin - b.read_buffer_start_, into_temp |-> <<>>]
        ELSE IF MovesWindow(b, begin)
        THEN [bd |-> [b EXCEPT !.read_buffer_start_ = begin,
                               !.read_buffer_ =
                                   SubSeq(content, begin + 1, begin + amount_to_read),
                               !.read_buffer_size_ = amount_to_read],
              from |-> "read_buffer_", off |-> 0, into_temp |-> <<>>]
        ELSE [bd |-> b, from |-> "temp", off |-> 0,
              into_temp |-> SubSeq(content, begin + 1, begin + length)]

\* the bytes a pointer returned by a Read on disk d points at now
PointedAt(d) ==
    LET r == tw_borrow[d]
        buffer == IF r.from = "temp" THEN tw_temp ELSE tw_disks[d].read_buffer_
    IN  SubSeq(buffer, r.off + 1, r.off + Len(r.bytes))

TwoIdle ==
    /\ tw_disks = <<>>
    /\ tw_files = <<>>
    /\ tw_temp = <<>>
    /\ tw_borrow = <<>>
    /\ tw_calls = 0

TwoInit ==
    /\ tw_disks = [d \in DiskIds |-> NewBufferedDisk(BdFileSize)]
    /\ tw_files = [d \in DiskIds |->
                      [i \in 1 .. BdFileSize |-> IF d = "a" THEN 9 + i ELSE 49 + i]]
    /\ tw_temp = [i \in 1 .. sizeof_temp |-> 0]
    /\ tw_borrow = [d \in DiskIds |-> NoBorrow]
    /\ tw_calls = 0

TwRead(d, begin, length) ==
    /\ tw_calls < BdMaxCalls
    /\ tw_calls' = tw_calls + 1
    /\ begin + length <= tw_disks[d].file_size_
    /\ LET r == BufferedRead(tw_disks[d], tw_files[d], begin, length)
       IN  /\ tw_disks' = [tw_disks EXCEPT ![d] = r.bd]
           /\ tw_temp' = IF r.from = "temp"
                         THEN r.into_temp \o
                              SubSeq(tw_temp, length + 1, Len(tw_temp))
                         ELSE tw_temp
           /\ tw_borrow' =
                [tw_borrow EXCEPT ![d] =
                    [from |-> r.from, off |-> r.off,
                     bytes |-> IF r.from = "temp" THEN r.into_temp
                               ELSE SubSeq(r.bd.read_buffer_, r.off + 1,
                                           r.off + length)]]
    /\ UNCHANGED tw_files
    /\ UNCHANGED notTwo

TwWrite(d, begin, length, tag) ==
    /\ tw_calls < BdMaxCalls
    /\ tw_calls' = tw_calls + 1
    /\ LET r == BufferedWrite(tw_disks[d], begin, [i \in 1 .. length |-> tag])
       IN  /\ tw_disks' = [tw_disks EXCEPT ![d] = r.bd]
           /\ tw_files' = [tw_files EXCEPT ![d] = Applied(@, r.ops)]
    /\ UNCHANGED <<tw_temp, tw_borrow>>
    /\ UNCHANGED notTwo

\* lines 292..300: the buffers are given back, the pointer is no longer held
TwFreeMemory(d) ==
    /\ tw_calls < BdMaxCalls
    /\ tw_calls' = tw_calls + 1
    /\ LET r == BufferedFlushCache(tw_disks[d])
       IN  /\ tw_disks' =
                [tw_disks EXCEPT ![d] =
                    [r.bd EXCEPT !.read_buffer_ = <<>>, !.read_alloc = FALSE,
                                 !.write_buffer_ = <<>>, !.write_alloc = FALSE,
                                 !.read_buffer_size_ = 0,
                                 !.write_buffer_size_ = 0]]
           /\ tw_files' = [tw_files EXCEPT ![d] = Applied(@, r.ops)]
    /\ tw_borrow' = [tw_borrow EXCEPT ![d] = NoBorrow]
    /\ UNCHANGED tw_temp
    /\ UNCHANGED notTwo

TwoNext ==
    \/ \E d \in DiskIds, begin \in BdReadBegins, length \in TwReadLengths :
          TwRead(d, begin, length)
    \/ \E d \in DiskIds, tag \in BdWriteTags : TwWrite(d, 0, 1, tag)
    \/ \E d \in DiskIds : TwFreeMemory(d)

\* C35: the bytes a Read returned stay as they were at the return until
\* the next Read or FreeMemory on the same BufferedDisk: no call on the
\* other BufferedDisk changes them, whatever path the Reads take.
C35_BorrowStable ==
    \A d \in DiskIds :
        tw_borrow[d].from # "none" => PointedAt(d) = tw_borrow[d].bytes

---------------------------------------------------------------------------
(* Phase 1, one table scanned by the workers (section 4.4): each worker    *)
(* scans its stripes of positions and adds the entries it finds to the     *)
(* sort manager, whose add is serialised per bucket.                       *)

Workers == {1, 2}

Stripes == {0, 1, 2}

\* positions per stripe
PositionsOf(stripe) == {2 * stripe, 2 * stripe + 1}

Positions == UNION {PositionsOf(s) : s \in Stripes}

Ph1Buckets == {0, 1}

\* what the scan finds: at each position an entry for a bucket, or nothing
FoundTables ==
    {[p \in Positions |-> (p % 3) - 1],
     [p \in Positions |-> ((p + 1) % 3) - 1],
     [p \in Positions |-> p % 2],
     [p \in Positions |-> 0]}

\* worker w scans the stripes w - 1, w - 1 + num_threads, ...
FirstStripe(w) == w - 1
NextStripe(stripe) == stripe + Cardinality(Workers)

\* the position worker w is at
PositionAt(w) == 2 * wk_stripe[w] + wk_i[w]

\* an add that does not wait for the bucket
BucketFreeAlways(b) == TRUE

\* add is serialised per bucket
BucketFree(b) == holder[b] = 0

Phase1Idle ==
    /\ ph1_pc = "idle"
    /\ found = <<>>
    /\ wk_pc = <<>>
    /\ wk_stripe = <<>>
    /\ wk_i = <<>>
    /\ wk_wp = <<>>
    /\ holder = <<>>
    /\ ph1_buckets = <<>>
    /\ scanned_by = <<>>
    /\ table_size = 0

Phase1Init ==
    /\ ph1_pc = "run"
    /\ found \in FoundTables
    /\ wk_pc = [w \in Workers |-> "stripe"]
    /\ wk_stripe = [w \in Workers |-> FirstStripe(w)]
    /\ wk_i = [w \in Workers |-> 0]
    /\ wk_wp = [w \in Workers |-> 0]
    /\ holder = [b \in Ph1Buckets |-> 0]
    /\ ph1_buckets = [b \in Ph1Buckets |-> [write_pointer |-> 0, file |-> <<>>]]
    /\ scanned_by = [p \in Positions |-> {}]
    /\ table_size = 0

\* the worker starts on its stripe, or has none left
TakeStripe(w) ==
    /\ ph1_pc = "run" /\ wk_pc[w] = "stripe"
    /\ wk_pc' = [wk_pc EXCEPT ![w] = IF wk_stripe[w] \in Stripes
                                     THEN "scan" ELSE "done"]
    /\ wk_i' = [wk_i EXCEPT ![w] = 0]
    /\ UNCHANGED <<ph1_pc, found, wk_stripe, wk_wp, holder, ph1_buckets,
                   scanned_by, table_size>>
    /\ UNCHANGED notPhase1

\* the worker looks at one position of its stripe; an entry found there is
\* to be added
Scan(w) ==
    /\ ph1_pc = "run" /\ wk_pc[w] = "scan"
    /\ IF PositionAt(w) \notin PositionsOf(wk_stripe[w])
       THEN /\ wk_stripe' = [wk_stripe EXCEPT ![w] = NextStripe(@)]
            /\ wk_pc' = [wk_pc EXCEPT ![w] = "stripe"]
            /\ UNCHANGED <<wk_i, scanned_by>>
       ELSE /\ scanned_by' = [scanned_by EXCEPT ![PositionAt(w)] = @ \cup {w}]
            /\ IF found[PositionAt(w)] >= 0
               THEN wk_pc' = [wk_pc EXCEPT ![w] = "add"] /\ UNCHANGED wk_i
               ELSE wk_i' = [wk_i EXCEPT ![w] = @ + 1] /\ UNCHANGED wk_pc
            /\ UNCHANGED wk_stripe
    /\ UNCHANGED <<ph1_pc, found, wk_wp, holder, ph1_buckets, table_size>>
    /\ UNCHANGED notPhase1

\* the worker enters add for the bucket of its entry and reads the write
\* pointer of the bucket
EnterAdd(w) ==
    /\ ph1_pc = "run" /\ wk_pc[w] = "add"
    /\ LET b == found[PositionAt(w)]
       IN  /\ BucketFree(b)
           /\ holder' = [holder EXCEPT ![b] = w]
           /\ wk_wp' = [wk_wp EXCEPT ![w] = ph1_buckets[b].write_pointer]
    /\ wk_pc' = [wk_pc EXCEPT ![w] = "in_add"]
    /\ UNCHANGED <<ph1_pc, found, wk_stripe, wk_i, ph1_buckets, scanned_by,
                   table_size>>
    /\ UNCHANGED notPhase1

\* the entry is stored at the write pointer read
StoreAt(file, wp, entry) ==
    IF wp < Len(file) THEN [file EXCEPT ![wp + 1] = entry]
    ELSE Append(file, entry)

\* the worker stores its entry, moves the write pointer and leaves add
LeaveAdd(w) ==
    /\ ph1_pc = "run" /\ wk_pc[w] = "in_add"
    /\ LET b == found[PositionAt(w)]
       IN  /\ ph1_buckets' =
                [ph1_buckets EXCEPT ![b] =
                    [write_pointer |-> wk_wp[w] + 1,
                     file |-> StoreAt(@.file, wk_wp[w], PositionAt(w))]]
           /\ holder' = [holder EXCEPT ![b] = IF @ = w THEN 0 ELSE @]
    /\ wk_pc' = [wk_pc EXCEPT ![w] = "scan"]
    /\ wk_i' = [wk_i EXCEPT ![w] = @ + 1]
    /\ UNCHANGED <<ph1_pc, found, wk_stripe, wk_wp, scanned_by, table_size>>
    /\ UNCHANGED notPhase1

\* the entries written, counted over the buckets
EntriesWritten(buckets) ==
    LET RECURSIVE Sum(_)
        Sum(S) == IF S = {} THEN 0
                  ELSE LET b == CHOOSE x \in S : TRUE
                       IN  buckets[b].write_pointer + Sum(S \ {b})
    IN  Sum(DOMAIN buckets)

\* the workers are joined and table_sizes[t] is recorded
Join ==
    /\ ph1_pc = "run"
    /\ \A w \in Workers : wk_pc[w] = "done"
    /\ ph1_pc' = "joined"
    /\ table_size' = EntriesWritten(ph1_buckets)
    /\ UNCHANGED <<found, wk_pc, wk_stripe, wk_i, wk_wp, holder, ph1_buckets,
                   scanned_by>>
    /\ UNCHANGED notPhase1

Phase1Next ==
    \/ \E w \in Workers : TakeStripe(w)
    \/ \E w \in Workers : Scan(w)
    \/ \E w \in Workers : EnterAdd(w)
    \/ \E w \in Workers : LeaveAdd(w)
    \/ Join

---------------------------------------------------------------------------
(* Properties of the workers of phase 1.                                   *)

\* the worker that scans a stripe
OwnerOf(stripe) == (stripe % Cardinality(Workers)) + 1

\* the entries (named by their positions) a run with one thread adds to
\* bucket b
SingleThreaded(b) == {p \in Positions : found[p] = b}

EntriesIn(file) == {file[i] : i \in 1 .. Len(file)}

C34_WitnessWaiting ==
    /\ ph1_pc = "run"
    /\ wk_pc[1] = "in_add" /\ wk_pc[2] = "add"
    /\ found[PositionAt(1)] = found[PositionAt(2)]

---------------------------------------------------------------------------
(* Util::MemCmpBits in use (util.hpp 277..297).                            *)

MemCmpBytes == {0, 1, 15, 16, 127, 128, 255}

MemCmpArrays == UNION {[1 .. len -> MemCmpBytes] : len \in {1, 2}}

MemCmpIdle ==
    /\ mc_pc = "idle"
    /\ mc_left = <<>>
    /\ mc_right = <<>>
    /\ mc_begin = 0
    /\ mc_out = 0

\* two arrays of len bytes and a bits_begin below 8 * len
MemCmpInit ==
    /\ mc_pc = "in"
    /\ mc_left \in MemCmpArrays
    /\ mc_right \in MemCmpArrays
    /\ Len(mc_left) = Len(mc_right)
    /\ mc_begin \in 0 .. 8 * Len(mc_left) - 1
    /\ mc_out = 0

MemCmpCall ==
    /\ mc_pc = "in"
    /\ mc_out' = MemCmpBits(mc_left, mc_right, Len(mc_left), mc_begin)
    /\ mc_pc' = "compared"
    /\ UNCHANGED <<mc_left, mc_right, mc_begin>>
    /\ UNCHANGED notMemCmp

MemCmpNext == MemCmpCall

Sign(n) == IF n < 0 THEN -1 ELSE IF n > 0 THEN 1 ELSE 0

\* the array with its bits before bits_begin set to 0
ClearedBefore(arr, bits_begin) ==
    [i \in 1 .. Len(arr) |->
        IF 8 * i <= bits_begin THEN 0
        ELSE IF 8 * (i - 1) >= bits_begin THEN arr[i]
        ELSE arr[i] % Pow2(8 * i - bits_begin)]

\* C36: for bits_begin < 8 * len the result of MemCmpBits is negative,
\* zero or positive exactly when the bits of a from bits_begin on, read
\* as a big-endian number, are less than, equal to or greater than those
\* of b; the bits before bits_begin do not affect the result.
C36_MemCmpBits ==
    mc_pc = "compared" =>
        /\ Sign(mc_out) =
              Sign(KeyOf(mc_left, mc_begin) - KeyOf(mc_right, mc_begin))
        /\ mc_out = MemCmpBits(ClearedBefore(mc_left, mc_begin),
                               ClearedBefore(mc_right, mc_begin),
                               Len(mc_left), mc_begin)

\* arrays that differ only before bits_begin, inside the start byte, have
\* compared equal
C36_Witness ==
    /\ mc_pc = "compared"
    /\ mc_left = <<15, 128>> /\ mc_right = <<15, 0>>
    /\ mc_begin = 9
    /\ mc_out = 0

\* the decision fell in a byte after the start byte
C36_WitnessLater ==
    /\ mc_pc = "compared"
    /\ mc_left = <<128, 1>> /\ mc_right = <<0, 16>>
    /\ mc_begin = 1
    /\ mc_out = -15

---------------------------------------------------------------------------
(* serialize.hpp: Serializer, Deserializer.  A value is a scalar of nSize  *)
(* bytes, a string, or a vector of scalars of nSize bytes; a scalar is     *)
(* stored as its bytes in memory, least significant first.  The field v of *)
(* a value holds its entries, the one number of a scalar included.         *)

sizeof_size_t == 8

\* values appended to one Serializer
MaxValues == 3

Scalar(nSize, v) == [kind |-> "scalar", size |-> nSize, v |-> <<v>>]
String(chars) == [kind |-> "string", size |-> 1, v |-> chars]
Vector(nSize, entries) == [kind |-> "vector", size |-> nSize, v |-> entries]

SerValues ==
    {Scalar(1, 0), Scalar(1, 255), Scalar(2, 258), Scalar(2, 65535),
     String(<<>>), String(<<97>>), String(<<0, 8>>),
     Vector(2, <<>>), Vector(2, <<258>>), Vector(2, <<0, 65535>>)}

RECURSIVE BytesOf(_, _)
\* lines 24..31: the nSize bytes of a scalar as they lie in memory
BytesOf(v, nSize) ==
    IF nSize = 0 THEN <<>> ELSE <<v % 256>> \o BytesOf(v \div 256, nSize - 1)

RECURSIVE LeastFirst(_)
LeastFirst(bytes) ==
    IF bytes = <<>> THEN 0 ELSE Head(bytes) + 256 * LeastFirst(Tail(bytes))

\* lines 38..40: the scalar whose bytes in memory are bytes; -1 stands for
\* a number of 2^24 or more
ScalarOf(bytes) ==
    IF \E i \in 4 .. Len(bytes) : bytes[i] # 0 THEN -1
    ELSE LeastFirst(SubSeq(bytes, 1, Min(3, Len(bytes))))

RECURSIVE SerializeEntries(_, _)
SerializeEntries(entries, nSize) ==
    IF entries = <<>> THEN <<>>
    ELSE BytesOf(Head(entries), nSize) \o SerializeEntries(Tail(entries), nSize)

\* lines 57..64
SerializeContainer(in) ==
    BytesOf(Len(in.v), sizeof_size_t) \o SerializeEntries(in.v, in.size)

\* lines 22..31, 82..104: the bytes Serialize adds to out
Serialize(in) ==
    IF in.kind = "scalar" THEN BytesOf(in.v[1], in.size)
    ELSE SerializeContainer(in)

Thrown == [ok |-> FALSE, out |-> <<>>, n |-> 0]

\* lines 32..42
DeserializeImpl(in, nSize, nPosition_) ==
    IF nPosition_ + nSize > Len(in) THEN [ok |-> FALSE, out |-> 0, n |-> 0]
    ELSE [ok |-> TRUE,
          out |-> ScalarOf(SubSeq(in, nPosition_ + 1, nPosition_ + nSize)),
          n |-> nSize]

RECURSIVE DeserializeEntries(_, _, _, _, _, _)
\* lines 76..78: the loop over the entries, i of them still to come
DeserializeEntries(in, nSize, i, nPosition_, nSerialized, out) ==
    IF i = 0 THEN [ok |-> TRUE, out |-> out, n |-> nSerialized]
    ELSE LET r == DeserializeImpl(in, nSize, nPosition_ + nSerialized)
         IN  IF ~r.ok THEN Thrown
             ELSE DeserializeEntries(in, nSize, i - 1, nPosition_,
                                     nSerialized + r.n, Append(out, r.out))

\* a DeserializeContainer that does not count the bytes of the size
DeserializeContainerNoCount(in, out, nSize, nPosition_) ==
    LET count == DeserializeImpl(in, sizeof_size_t, nPosition_)
    IN  IF ~count.ok \/ count.out = -1 THEN Thrown
        ELSE DeserializeEntries(in, nSize, count.out, nPosition_, 0, <<>>)

\* lines 66..80: out is the container handed in; a size too large for
\* resize ends in an exception
DeserializeContainer(in, out, nSize, nPosition_) ==
    LET count == DeserializeImpl(in, sizeof_size_t, nPosition_)
    IN  IF ~count.ok \/ count.out = -1 THEN Thrown
        ELSE IF count.out = 0 THEN [ok |-> TRUE, out |-> out, n |-> count.n]
        ELSE DeserializeEntries(in, nSize, count.out, nPosition_, count.n, <<>>)

\* lines 45..55, 82..104: Deserialize for a target of the type of like
Deserialize(in, like, nPosition_) ==
    IF like.kind = "scalar"
    THEN LET r == DeserializeImpl(in, like.size, nPosition_)
         IN  [r EXCEPT !.out = <<r.out>>]
    ELSE DeserializeContainer(in, <<>>, like.size, nPosition_)

SerIdle ==
    /\ sz_pc = "idle"
    /\ sz_values = <<>>
    /\ target = <<>>
    /\ nPosition = 0
    /\ sz_got = <<>>
    /\ sz_err = "none"

SerInit ==
    /\ sz_pc = "append"
    /\ sz_values = <<>>
    /\ target = <<>>
    /\ nPosition = 0
    /\ sz_got = <<>>
    /\ sz_err = "none"

\* lines 109..114: Serializer::Append
SerAppend(value) ==
    /\ sz_pc = "append"
    /\ Len(sz_values) < MaxValues
    /\ target' = target \o Serialize(value)
    /\ sz_values' = Append(sz_values, value)
    /\ UNCHANGED <<sz_pc, nPosition, sz_got, sz_err>>
    /\ UNCHANGED notSer

\* lines 115..118, 131: a Deserializer is made over Data()
SerData ==
    /\ sz_pc = "append"
    /\ sz_pc' = "get"
    /\ nPosition' = 0
    /\ UNCHANGED <<sz_values, target, sz_got, sz_err>>
    /\ UNCHANGED notSer

\* lines 136..142: Get for the type of the next value appended
SerGet ==
    /\ sz_pc = "get"
    /\ Len(sz_got) < Len(sz_values)
    /\ LET like == sz_values[Len(sz_got) + 1]
           r == Deserialize(target, like, nPosition)
       IN  IF r.ok
           THEN /\ nPosition' = nPosition + r.n
                /\ sz_got' = Append(sz_got, [like EXCEPT !.v = r.out])
                /\ UNCHANGED <<sz_pc, sz_err>>
           ELSE /\ sz_pc' = "thrown"
                /\ sz_err' = "invalid_argument"
                /\ UNCHANGED <<nPosition, sz_got>>
    /\ UNCHANGED <<sz_values, target>>
    /\ UNCHANGED notSer

SerNext ==
    \/ \E value \in SerValues : SerAppend(value)
    \/ SerData
    \/ SerGet

\* lines 143..146: Deserializer::End
End == nPosition = Len(target)

\* C38: the Get calls on a Deserializer over Data() return the values
\* appended, in their order and without an exception, and End() is true
\* exactly when every value appended has been returned.
C38_RoundTrip ==
    /\ sz_err = "none"
    /\ sz_pc = "get" =>
          /\ sz_got = SubSeq(sz_values, 1, Len(sz_got))
          /\ End <=> Len(sz_got) = Len(sz_values)

\* a scalar, an empty vector and a string have been read back
C38_Witness ==
    /\ sz_pc = "get"
    /\ sz_got = <<Scalar(2, 258), Vector(2, <<>>), String(<<0, 8>>)>>
    /\ End

\* End() is false between two Get calls, the first returned a vector
C38_WitnessBetween ==
    /\ sz_pc = "get"
    /\ sz_got = <<Vector(2, <<0, 65535>>)>>
    /\ Len(sz_values) = 2
    /\ ~End

---------------------------------------------------------------------------
(* Util::RoundSize on uint64_t.  A uint64_t is a word of 64 bits, the most *)
(* significant first; the arithmetic is that of the type, modulo 2^64.     *)

uint64_bits == 64

Word(exponents) == [i \in 1 .. uint64_bits |-> IF (uint64_bits - i) \in exponents THEN 1 ELSE 0]

Zero == Word({})
One == Word({0})
Fifty == Word({1, 4, 5})

\* a < b for two words of one length
Less(a, b) == \E i \in 1 .. Len(a) : a[i] < b[i] /\ \A j \in 1 .. i - 1 : a[j] = b[j]

\* a * 2 in uint64_t: the top bit is lost
Double(a) == Tail(a) \o <<0>>

RECURSIVE CarryInto(_, _, _)
\* the carry into bit i of a + b (into the bit above the word for i = 0)
CarryInto(a, b, i) ==
    IF i = Len(a) THEN 0
    ELSE (a[i + 1] + b[i + 1] + CarryInto(a, b, i + 1)) \div 2

\* a + b in uint64_t
Plus(a, b) == [i \in 1 .. Len(a) |-> (a[i] + b[i] + CarryInto(a, b, i)) % 2]

RoundSizeInputs ==
    {Zero, One, Word({0, 1}), Word({2}), Word({0, 2}), Word({40}), Word({3, 61}),
     Word({62}), Word({0, 62}), Word({63}), Word({0, 63}), Word(0 .. 63)}

RoundSizeIdle ==
    /\ rs_pc = "idle"
    /\ rs_n = Zero
    /\ rs_size = Zero
    /\ rs_result = Zero
    /\ rs_out = Zero

RoundSizeInit ==
    /\ rs_pc = "call"
    /\ rs_n \in RoundSizeInputs
    /\ rs_size = Zero
    /\ rs_result = Zero
    /\ rs_out = Zero

\* lines 271..272
RoundSizeEnter ==
    /\ rs_pc = "call"
    /\ rs_size' = Double(rs_n)
    /\ rs_result' = One
    /\ rs_pc' = "loop"
    /\ UNCHANGED <<rs_n, rs_out>>
    /\ UNCHANGED notRoundSize

\* line 273: one pass of the loop
RoundSizeLoop ==
    /\ rs_pc = "loop"
    /\ Less(rs_result, rs_size)
    /\ rs_result' = Double(rs_result)
    /\ UNCHANGED <<rs_pc, rs_n, rs_size, rs_out>>
    /\ UNCHANGED notRoundSize

\* line 273: the loop is left
RoundSizeLeave ==
    /\ rs_pc = "loop"
    /\ ~Less(rs_result, rs_size)
    /\ rs_pc' = "return"
    /\ UNCHANGED <<rs_n, rs_size, rs_result, rs_out>>
    /\ UNCHANGED notRoundSize

\* line 273: result is 0 and stays below size, the loop has no end and no
\* side effect; a build may assume that it ends and leave it
RoundSizeAssumedToEnd ==
    /\ rs_pc = "loop"
    /\ rs_result = Zero
    /\ Less(rs_result, rs_size)
    /\ rs_pc' = "return"
    /\ UNCHANGED <<rs_n, rs_size, rs_result, rs_out>>
    /\ UNCHANGED notRoundSize

\* line 274
RoundSizeReturn ==
    /\ rs_pc = "return"
    /\ rs_out' = Plus(rs_result, Fifty)
    /\ rs_pc' = "returned"
    /\ UNCHANGED <<rs_n, rs_size, rs_result>>
    /\ UNCHANGED notRoundSize

RoundSizeNext ==
    \/ RoundSizeEnter
    \/ RoundSizeLoop
    \/ RoundSizeLeave
    \/ RoundSizeAssumedToEnd
    \/ RoundSizeReturn

\* the numbers 2 * n and p as words of 65 bits
TwiceN == rs_n \o <<0>>
Wide(p) == <<0>> \o p

OneBitSet(p) == Cardinality({i \in 1 .. Len(p) : p[i] = 1}) = 1

\* p is the least power of two that is >= max(1, 2n)
LeastPower(p) ==
    /\ OneBitSet(p)
    /\ ~Less(Wide(p), TwiceN)
    /\ p = One \/ Less(Wide(<<0>> \o SubSeq(p, 1, Len(p) - 1)), TwiceN)

\* the loop of line 273 goes on without end
LoopWithoutEnd == rs_pc = "loop" /\ rs_result = Zero /\ Less(rs_result, rs_size)

\* C39: the call returns 50 plus the least power of two that is >=
\* max(1, 2n), no step of it wraps around (size is 2n, result + 50 has no
\* carry out of the word), and the loop is never in a state it cannot leave.
C39_RoundSize ==
    /\ ~LoopWithoutEnd
    /\ rs_pc \in {"loop", "return", "returned"} => Wide(rs_size) = TwiceN
    /\ rs_pc = "returned" =>
          /\ LeastPower(rs_result)
          /\ rs_out = Plus(rs_result, Fifty)
          /\ CarryInto(rs_result, Fifty, 0) = 0

\* 2^62 entries: the call returns 2^63 + 50
C39_ReturnedLargest == rs_pc = "returned" /\ rs_n = Word({62}) /\ rs_out = Plus(Word({63}), Fifty)

\* for n <= 2^62 the call is as the claim says
C39_UpTo2Pow62 == (rs_n = Word({62}) \/ Less(rs_n, Word({62}))) => C39_RoundSize

\* the next turn of the loop of Read or Write makes no seek
SkipsSeek ==
    /\ fd_pc = "loop"
    /\ \/ fd_call.op = "Read" /\ ~NeedSeekRead(disk.bReading, fd_call.begin, disk.readPos)
       \/ fd_call.op = "Write" /\ ~NeedSeekWrite(disk.bReading, fd_call.begin, disk.writePos)

\* C40: whenever a turn of the loop of Read or Write skips the seek, the
\* stream of the file is at offset begin.
C40_SkipSeekAtBegin == SkipsSeek => fpos = fd_call.begin

\* a Read at offset 0 by a FileDisk move-constructed after a Read that ended
\* at offset 1 has returned the byte at offset 1
C40_ReadElsewhere ==
    /\ fd_pc = "ready" /\ fd_call.op = "Read" /\ fd_call.begin = 0
    /\ fd_try = [what |-> "fread", start |-> 1, amt |-> 1]

---------------------------------------------------------------------------
(* The specifications.                                                     *)

\* one part of the model runs, the others stand still
InitPlot ==
       PlotInit /\ LpIdle /\ ParkIdle /\ SortIdle /\ Phase2Idle
    /\ HeaderIdle /\ FdIdle /\ BdIdle /\ FilteredIdle /\ SliceIdle
    /\ Phase1Idle
    /\ TwoIdle
    /\ MemCmpIdle
    /\ SerIdle
    /\ RoundSizeIdle

InitLinePoint ==
       LpInit /\ PlotIdle /\ ParkIdle /\ SortIdle /\ Phase2Idle
    /\ HeaderIdle /\ FdIdle /\ BdIdle /\ FilteredIdle /\ SliceIdle
    /\ Phase1Idle
    /\ TwoIdle
    /\ MemCmpIdle
    /\ SerIdle
    /\ RoundSizeIdle

InitPark ==
       ParkInit /\ PlotIdle /\ LpIdle /\ SortIdle /\ Phase2Idle
    /\ HeaderIdle /\ FdIdle /\ BdIdle /\ FilteredIdle /\ SliceIdle
    /\ Phase1Idle
    /\ TwoIdle
    /\ MemCmpIdle
    /\ SerIdle
    /\ RoundSizeIdle

InitSort ==
       SortInit /\ PlotIdle /\ LpIdle /\ ParkIdle /\ Phase2Idle
    /\ HeaderIdle /\ FdIdle /\ BdIdle /\ FilteredIdle /\ SliceIdle
    /\ Phase1Idle
    /\ TwoIdle
    /\ MemCmpIdle
    /\ SerIdle
    /\ RoundSizeIdle

InitPhase2 ==
       Phase2Init /\ PlotIdle /\ LpIdle /\ ParkIdle /\ SortIdle
    /\ HeaderIdle /\ FdIdle /\ BdIdle /\ FilteredIdle /\ SliceIdle
    /\ Phase1Idle
    /\ TwoIdle
    /\ MemCmpIdle
    /\ SerIdle
    /\ RoundSizeIdle

InitHeader ==
       HeaderInit /\ LpIdle /\ ParkIdle /\ SortIdle /\ Phase2Idle
    /\ PlotIdle /\ FdIdle /\ BdIdle /\ FilteredIdle /\ SliceIdle
    /\ Phase1Idle
    /\ TwoIdle
    /\ MemCmpIdle
    /\ SerIdle
    /\ RoundSizeIdle

InitFileDisk ==
       FdInit /\ LpIdle /\ ParkIdle /\ SortIdle /\ Phase2Idle /\ HeaderIdle
    /\ PlotIdle /\ BdIdle /\ FilteredIdle /\ SliceIdle
    /\ Phase1Idle
    /\ TwoIdle
    /\ MemCmpIdle
    /\ SerIdle
    /\ RoundSizeIdle

InitBuffered ==
       BdInit /\ LpIdle /\ ParkIdle /\ SortIdle /\ Phase2Idle /\ HeaderIdle
    /\ FdIdle /\ PlotIdle /\ FilteredIdle /\ SliceIdle
    /\ Phase1Idle
    /\ TwoIdle
    /\ MemCmpIdle
    /\ SerIdle
    /\ RoundSizeIdle

InitFiltered ==
       FilteredInit /\ LpIdle /\ ParkIdle /\ SortIdle /\ Phase2Idle
    /\ HeaderIdle /\ FdIdle /\ BdIdle /\ PlotIdle /\ SliceIdle
    /\ Phase1Idle
    /\ TwoIdle
    /\ MemCmpIdle
    /\ SerIdle
    /\ RoundSizeIdle

InitSlice ==
       SliceInit /\ LpIdle /\ ParkIdle /\ SortIdle /\ Phase2Idle
    /\ HeaderIdle /\ FdIdle /\ BdIdle /\ FilteredIdle /\ PlotIdle
    /\ Phase1Idle
    /\ TwoIdle
    /\ MemCmpIdle
    /\ SerIdle
    /\ RoundSizeIdle

InitPhase1 ==
       Phase1Init /\ LpIdle /\ ParkIdle /\ SortIdle /\ Phase2Idle
    /\ HeaderIdle /\ FdIdle /\ BdIdle /\ FilteredIdle /\ SliceIdle
    /\ PlotIdle
    /\ TwoIdle
    /\ MemCmpIdle
    /\ SerIdle
    /\ RoundSizeIdle

InitTwoDisks ==
       TwoInit /\ LpIdle /\ ParkIdle /\ SortIdle /\ Phase2Idle /\ HeaderIdle
    /\ FdIdle /\ BdIdle /\ FilteredIdle /\ SliceIdle /\ Phase1Idle
    /\ PlotIdle
    /\ MemCmpIdle
    /\ SerIdle
    /\ RoundSizeIdle

InitMemCmp ==
       MemCmpInit /\ LpIdle /\ ParkIdle /\ SortIdle /\ Phase2Idle
    /\ HeaderIdle /\ FdIdle /\ BdIdle /\ FilteredIdle /\ SliceIdle
    /\ Phase1Idle /\ TwoIdle /\ PlotIdle
    /\ SerIdle
    /\ RoundSizeIdle

InitSerialize ==
       SerInit /\ LpIdle /\ ParkIdle /\ SortIdle /\ Phase2Idle /\ HeaderIdle
    /\ FdIdle /\ BdIdle /\ FilteredIdle /\ SliceIdle /\ Phase1Idle
    /\ TwoIdle /\ MemCmpIdle /\ PlotIdle
    /\ RoundSizeIdle

InitRoundSize ==
       RoundSizeInit /\ LpIdle /\ ParkIdle /\ SortIdle /\ Phase2Idle
    /\ HeaderIdle /\ FdIdle /\ BdIdle /\ FilteredIdle /\ SliceIdle
    /\ Phase1Idle /\ TwoIdle /\ MemCmpIdle /\ SerIdle /\ PlotIdle

SpecPlot == InitPlot /\ [][PlotNext]_vars

\* CreatePlotDisk is not halted, and the copy and the rename of the placement
\* loop each succeed at some attempt
SpecPlotFair ==
    /\ InitPlot /\ [][PlotNext]_vars
    /\ WF_vars(PlotNext) /\ WF_vars(CopySucceeds) /\ WF_vars(RenameSucceeds)

SpecLinePoint == InitLinePoint /\ [][LpNext]_vars

SpecPark == InitPark /\ [][ParkNext]_vars

SpecSort == InitSort /\ [][SortNext]_vars

SpecPhase2 == InitPhase2 /\ [][Phase2Next]_vars

SpecHeader == InitHeader /\ [][HeaderNext]_vars

\* the user of the FileDisk is not halted, and an attempt that can transfer
\* everything does so at some time
SpecFileDiskFair ==
    /\ InitFileDisk /\ [][FdNext]_vars
    /\ WF_vars(FdNext) /\ WF_vars(FdTransferSucceeds)

SpecFileDisk == InitFileDisk /\ [][FdNext]_vars

SpecFileDiskMove == InitFileDisk /\ [][FdMoveNext]_vars

SpecBuffered == InitBuffered /\ [][BdNext]_vars

SpecFiltered == InitFiltered /\ [][FilteredNext]_vars

SpecSlice == InitSlice /\ [][SliceNext]_vars

SpecPhase1 == InitPhase1 /\ [][Phase1Next]_vars

SpecTwoDisks == InitTwoDisks /\ [][TwoNext]_vars

SpecMemCmp == InitMemCmp /\ [][MemCmpNext]_vars

SpecSerialize == InitSerialize /\ [][SerNext]_vars

SpecRoundSize == InitRoundSize /\ [][RoundSizeNext]_vars

===========================================================================
